---------------------------- MODULE Spec2Model ----------------------------
(***************************************************************************)
(* Model of korya/exp-openai-webrtc-streaming.                             *)
(*                                                                         *)
(* Part 1: audioBuffer (the jitter buffer between the decode loop and the  *)
(* playback reader).  Every method holds b.mutex from entry to return,     *)
(* except that cond.Wait releases it while a reader is parked; so a step   *)
(* of the model is one critical section.  Write's discard loop is kept     *)
(* one iteration per step (the mutex stays held between the steps), which  *)
(* makes its termination something the model can decide.                   *)
(*                                                                         *)
(* A byte is modelled by its position in the logical stream of written     *)
(* bytes (1, 2, 3, ...), so that order, loss and duplication are visible.  *)
(***************************************************************************)
EXTENDS Integers, Sequences, FiniteSets, TLC

----------------------------------------------------------------------------
(* Bounds of the model *)

\* newAudioBuffer's bytesPerSecond is 48000*2*2; the model scales it down and
\* derives the capacity and the watermarks with the source's arithmetic.
BytesPerSecondScaled == 40
\* a Write's data is at most this much longer than the high-water mark
MaxOver == 1
\* longest slice handed to Read
MaxRead == 3
\* total bytes the producer submits
MaxStream == 17
\* packets the remote track delivers
MaxFrames == 3
\* longest decoded frame (the source's frames are shorter than the high-water mark)
MaxFrame == 6
\* capacity of decodedSamplesQueue (100 in oai/main.go), scaled down
QueueCap == 2
\* Connect calls per run of the session negotiator
MaxConnects == 3
\* iterations of the capture loop per run
MaxCaptures == 5
\* the samples converted are multiples of 2^-SampleBits ...
SampleBits == 2
\* ... from -MaxSample to MaxSample of these units (that is, within [-3.0, 3.0])
MaxSample == 12
\* remote tracks (WriteWebRTCTrack goroutines started) per run
MaxTracks == 2
\* logStats calls per run
MaxLogs == 4
\* the clock of the diagnostics runs from 0 to MaxClock ticks ...
MaxClock == 5
\* ... of which TicksPerSecond make time.Second
TicksPerSecond == 2
\* bytes of an Opus payload handed to logStats
MaxPayload == 2
\* len(ap.buffer) of the PortaudioPlayer, in samples (48000 in the code, where a
\* frame and a callback are 1920 samples; here they are up to MaxFrame)
RingLen == 8
\* capacity of speakerBuffers in receiveRemoteAudio (30 in the code)
SpeakerCap == 2
\* packets the remote track delivers to receiveRemoteAudio per run
MaxRtp == 4
\* capacity of echoChan in the echo programs (100 in the code)
EchoCap == 2
\* frames captured during one echoDelay (300 ms / 20 ms = 15 in the code)
DelayFrames == 2
\* frames the echo programs capture per run
MaxEcho == 4
\* encoded buffers recordAudioToWav reads per run
MaxRec == 5

----------------------------------------------------------------------------
(* newAudioBuffer's configuration *)

bufferCapacity == BytesPerSecondScaled \div 2
lowWaterMark == BytesPerSecondScaled \div 20
highWaterMark == (bufferCapacity * 4) \div 5

Readers == {"r1", "r2"}
DataLens == 0 .. (highWaterMark + MaxOver)
ReadLens == 0 .. MaxRead

VARIABLES
    buf,      \* b.buf: the unread bytes, oldest first
    closed,   \* b.closed
    mutex,    \* holder of b.mutex: "free", or the process inside a critical section
    rpc,      \* per reader: "idle", "wait" (parked in cond.Wait), "woken" (signalled, must relock)
    wpc,      \* the producer: "idle", or "loop" (inside Write's discard loop)
    wdata,    \* the data argument of the Write in progress
    wfill,    \* len(b.buf) when the Write in progress took the mutex
    written,  \* bytes accepted into the logical stream so far
    dropped,  \* bytes removed by Write's discard loop so far
    last      \* the most recently returned call and what it returned

\* Part 2: the inbound decode loops (OpusV2AudioPlayer.WriteWebRTCTrack,
\* OpusV3AudioPlayer.WriteWebRTCTrack, the OnTrack goroutine of oai/main.go)
VARIABLES
    player,    \* whose loop runs: "v2", "v3", "oai" ("none": no loop)
    dpc,       \* the loop: "top", "read" (inside ReadRTP), "decoded", "writing", "done"
    dexit,     \* why the loop returned: "none", "closed", "readErr", "decodeErr", "nilPlayer" (it panicked)
    apClosed,  \* ap.closed
    apMutex,   \* holder of ap.mutex: "free" or "loop"
    pkt,       \* the frame in hand: its number and the length of its decoded PCM
    nframes,   \* packets ReadRTP has returned so far
    nbad,      \* how many of them failed to decode
    ndeliv,    \* frames handed on so far (Write returned nil / queue send done)
    queue,     \* decodedSamplesQueue of oai/main.go
    cbOut      \* what the last output-stream callback did

\* Part 3: the session negotiator (OpenAIRealtimeAPI) and its callers
VARIABLES
    connectMutex,    \* holder of c.connectMutex: "free" or the caller inside Connect/Disconnect
    ephemeralToken,  \* c.ephemeralToken: "" or the token the exchange returned
    tokenValid,      \* whether the API still accepts that token (the server's side)
    peerConnection,  \* c.peerConnection: Nil or the peer connection's number
    dataChannel,     \* c.dataChannel: Nil or the data channel's number
    peerConnections,             \* every peer connection created so far: how often Close was called on it
    dataChannels,             \* every data channel created so far: its pc, whether it opened, Close calls
    cpc,             \* per caller: "idle", or the step of Connect/Disconnect it is about to take
    lpc,             \* per caller: the peer connection its Connect attempt has created (Nil: none)
    nconn,           \* Connect calls begun so far
    ret,             \* the most recently returned Connect/Disconnect: who called, the error
                     \* ("nil", or the step that failed), the pc the attempt made, the
                     \* return before it
    sendText         \* what main's SendText after Connect returned ("none": not called)

\* Part 4: the outbound capture/encode loop of oai/main.go
VARIABLES
    capPc,     \* the loop: "off", "capture", "encode", "send", "done"
    capExit,   \* why the loop returned: "none", "readErr", "writeErr"
    ncap,      \* inStream.Read calls that have returned
    nover,     \* how many of them reported an input overflow
    nencErr,   \* EncodeFloat32 calls that failed
    nhand,     \* frames handed to micTrack.WriteSample
    nsent      \* WriteSample calls that returned nil

\* Part 5: main of oai/main.go, which owns both peer connections and both loops
VARIABLES
    mainPc,    \* "off" (not this program), "wait" (in wg.Wait()), "exited" (main returned)
    pcOpen     \* pcOffer and pcAnswer are open (their deferred Close has not run)

\* Part 6: the conversions of float samples to fixed-point samples
VARIABLES
    conv,      \* which conversion: "float32ToBytes", "recordAudioToWav", "echo" ("none")
    sample,    \* the float32 sample it is applied to
    fixed,     \* the fixed-point sample it produced
    convPc     \* "off", "call" (about to convert), "done"

\* Part 7: the WriteWebRTCTrack goroutines that OnTrack starts on the one player
VARIABLES
    loops      \* one entry per goroutine started: its peer connection, whether it still runs

\* Part 8: the AudioDiagnostics of one WriteWebRTCTrack call
VARIABLES
    diag,      \* sampleCount, packetsReceived, bytesReceived, lastPrintTime
    clock,     \* time.Now(), in ticks
    total,     \* history: the sums over all logStats calls so far
    reported,  \* history: the sums over all statistics printed so far
    nreports   \* history: how many times the statistics were printed

\* Part 9: the PortaudioPlayer (its loop uses player = "pa" and the variables of Part 2)
VARIABLES
    ring,        \* ap.buffer: the sample at each position (0: the initial zero)
    bufferIndex, \* ap.bufferIndex
    emitted,     \* what the last processAudio call put into out
    highest,     \* history: the latest decoded sample that earlier calls put into out
    stream,      \* ap.stream: "started", "stopped", "closed"
    terminated,  \* portaudio.Terminate has succeeded
    closeRet     \* what the last Close returned: "none", "nil", "Stop", "Close", "Terminate"

\* Part 10: receiveRemoteAudio and its two goroutines
VARIABLES
    ctxDone,        \* ctx has been cancelled
    rraPc,          \* the function: "off", "waitCtx", "wgWait", "returned"
    readerPc,       \* goroutine 1: "off", "select", "read", "send", "done", "panic"
    speakerPc,      \* goroutine 2: "off", "select", "done"
    speakerBuffers, \* the frames queued in the channel, oldest first
    sbClosed,       \* close(speakerBuffers) has run
    nrtp,           \* packets ReadRTP has returned
    nspoken         \* frames (nil ones from the closed channel included) goroutine 2 received

\* Part 11: the echo programs (oai-echo/main.go and its mono twin)
VARIABLES
    echoPc,    \* the capture goroutine: "off", "run", "done"
    ncapt,     \* frames captured so far; frame n is the n-th captured
    sleeping,  \* the frames whose delay goroutine is in time.Sleep, oldest first
    runnable,  \* the frames whose delay goroutine has slept and has not yet run
    sendq,     \* the frames whose delay goroutine is blocked in the send, oldest first
    echoChan,  \* the frames buffered in echoChan, oldest first
    echoOut    \* history: the frames the output callback has played, in order

\* Part 12: recordAudioToWav
VARIABLES
    recPc,     \* "off", "read" (at encodedReader.Read), "frame" (holding encBuf), "done"
    releases,  \* history: releases[n] is how often release() of the n-th buffer was called
    recRet     \* "none", or what recordAudioToWav returned: "nil", "readErr", "writeErr"

bufVars == <<buf, closed, mutex, rpc, wpc, wdata, wfill, written, dropped, last>>
sesVars == <<connectMutex, ephemeralToken, tokenValid, peerConnection, dataChannel,
             peerConnections, dataChannels, cpc, lpc, nconn, ret, sendText>>
capVars == <<capPc, capExit, ncap, nover, nencErr, nhand, nsent>>
mainVars == <<mainPc, pcOpen>>
convVars == <<conv, sample, fixed, convPc>>
trkVars == <<loops>>
diagVars == <<diag, clock, total, reported, nreports>>
paVars == <<ring, bufferIndex, emitted, highest, stream, terminated, closeRet>>
rraVars == <<ctxDone, rraPc, readerPc, speakerPc, speakerBuffers, sbClosed, nrtp, nspoken>>
echoVars == <<echoPc, ncapt, sleeping, runnable, sendq, echoChan, echoOut>>
recVars == <<recPc, releases, recRet>>
otherVars == <<convVars, trkVars, diagVars, paVars, rraVars, echoVars, recVars>>
restVars == <<sesVars, capVars, mainVars, otherVars>>
decVars == <<player, dpc, dexit, apClosed, apMutex, pkt, nframes, nbad, ndeliv,
            queue, cbOut>>
vars == <<bufVars, decVars, restVars>>

Min(a, b) == IF a < b THEN a ELSE b

\* the bytes lo, lo+1, ..., lo+n-1 of the logical stream
Run(lo, n) == [i \in 1 .. n |-> lo + i - 1]

Drop(s, n) == SubSeq(s, n + 1, Len(s))
Take(s, n) == SubSeq(s, 1, n)

\* k flips on every return, so two equal consecutive returns are still two steps
Returned(op, arg, n, err, bytes, fill, after, wasClosed) ==
    [op |-> op, arg |-> arg, n |-> n, err |-> err, bytes |-> bytes,
     fill |-> fill, after |-> after, wasClosed |-> wasClosed, k |-> 1 - last.k]

newAudioBuffer ==
    /\ buf = <<>>
    /\ closed = FALSE
    /\ mutex = "free"
    /\ rpc = [r \in Readers |-> "idle"]
    /\ wpc = "idle"
    /\ wdata = <<>>
    /\ wfill = 0
    /\ written = 0
    /\ dropped = 0
    /\ last = [op |-> "none", arg |-> 0, n |-> 0, err |-> "nil",
               bytes |-> <<>>, fill |-> 0, after |-> 0, wasClosed |-> FALSE, k |-> 0]

----------------------------------------------------------------------------
(* sync.Cond *)

Waiters(pcs) == {r \in Readers : pcs[r] = "wait"}

\* cond.Signal: wakes one parked goroutine, if there is any
Signal(pcs) ==
    IF Waiters(pcs) = {} THEN {pcs}
    ELSE {[pcs EXCEPT ![r] = "woken"] : r \in Waiters(pcs)}

\* a Close that wakes one parked goroutine only (Signal where Broadcast is meant)
BroadcastOne(pcs) == CHOOSE x \in Signal(pcs) : TRUE

\* cond.Broadcast: wakes every parked goroutine
Broadcast(pcs) == [r \in Readers |-> IF pcs[r] = "wait" THEN "woken" ELSE pcs[r]]

----------------------------------------------------------------------------
(* audioBuffer.Read *)

\* a wait loop that waits only while the buffer is empty
MustWaitEmpty(b, c) == Len(b) = 0 /\ ~c

\* the condition of Read's wait loop
MustWait(b, c) == Len(b) < lowWaterMark /\ ~c

\* an end-of-stream test that forgets the bytes still buffered
AtEOFClosed(b, c) == c

\* Read's end-of-stream test
AtEOF(b, c) == c /\ Len(b) = 0

\* a Read that leaves the bytes it returned in the buffer
AdvanceNone(b, n) == b

\* b.buf = b.buf[n:]
Advance(b, n) == Drop(b, n)

\* a copy that ignores the length of the caller's slice
CopyAll(req, b) == Len(b)

\* n = copy(buf, b.buf)
CopyLen(req, b) == Min(req, Len(b))

\* Read from the wait loop's test on, with the mutex held by reader r
ReadBody(r, req) ==
    IF MustWait(buf, closed)
    THEN /\ rpc' = [rpc EXCEPT ![r] = "wait"]
         /\ UNCHANGED <<buf, last>>
    ELSE IF AtEOF(buf, closed)
         THEN /\ rpc' = [rpc EXCEPT ![r] = "idle"]
              /\ last' = Returned("read", req, 0, "EOF", <<>>, Len(buf), Len(buf), closed)
              /\ UNCHANGED buf
         ELSE LET n == CopyLen(req, buf)
                  rest == Advance(buf, n)
                  done == [rpc EXCEPT ![r] = "idle"]
              IN  /\ buf' = rest
                  /\ rpc' \in (IF Len(rest) < lowWaterMark THEN Signal(done) ELSE {done})
                  /\ last' = Returned("read", req, n, "nil", Take(buf, n),
                                      Len(buf), Len(rest), closed)

\* a consumer calls Read(buf) with len(buf) = req
ReadCall(r, req) ==
    /\ rpc[r] = "idle"
    /\ mutex = "free"
    /\ ReadBody(r, req)
    /\ UNCHANGED <<closed, mutex, wpc, wdata, wfill, written, dropped>>

\* a signalled reader returns from cond.Wait with the mutex and tests the loop again.
\* Read does not touch its slice before the copy, so the model draws the slice's
\* length when the reader gets past the wait loop instead of carrying it while parked.
ReadWake(r, req) ==
    /\ rpc[r] = "woken"
    /\ mutex = "free"
    /\ ReadBody(r, req)
    /\ UNCHANGED <<closed, mutex, wpc, wdata, wfill, written, dropped>>

----------------------------------------------------------------------------
(* audioBuffer.Write *)

\* a discard loop that compares with the capacity instead of the high-water mark
OverCapacity(b, data) == Len(b) + Len(data) > bufferCapacity

\* the condition of Write's discard loop
OverHigh(b, data) == Len(b) + Len(data) > highWaterMark

\* a Write without the test of b.closed
NeverRefused(c) == FALSE

\* Write's test of b.closed
Refused(c) == c

\* a discard that cuts the newest bytes: b.buf[:len(b.buf)-dropSize]
DiscardNewest(b, n) == SubSeq(b, 1, Len(b) - n)

\* b.buf = b.buf[dropSize:]
Discard(b, n) == Drop(b, n)

\* a discard of just the bytes in excess of the high-water mark
DropSizeExcess(b, data) == Min(Len(b) + Len(data) - highWaterMark, Len(b))

\* dropSize of one iteration of the discard loop
DropSize(b, data) == Min(Len(data), Len(b))

\* the tail of Write, with the mutex held and the discard loop left:
\* append, signal the reader, unlock, return
WriteTail(b, data, fill0) ==
    /\ buf' = b \o data
    /\ rpc' \in (IF Len(buf') >= lowWaterMark THEN Signal(rpc) ELSE {rpc})
    /\ last' = Returned("write", Len(data), Len(data), "nil", data, fill0, Len(buf'), closed)
    /\ mutex' = "free"
    /\ wpc' = "idle"
    /\ wdata' = <<>>
    /\ wfill' = 0
    /\ UNCHANGED closed

\* Write(data) with len(data) = len: the empty-data return, the lock, the closed
\* return, the first test of the discard loop
WriteCall(len) ==
    /\ wpc = "idle"
    /\ IF len = 0
       THEN /\ last' = Returned("write", 0, 0, "nil", <<>>, Len(buf), Len(buf), closed)
            /\ UNCHANGED <<buf, closed, mutex, rpc, wpc, wdata, wfill, written, dropped>>
       ELSE /\ mutex = "free"
            /\ IF Refused(closed)
               THEN /\ last' = Returned("write", len, 0, "ErrClosedPipe", <<>>,
                                        Len(buf), Len(buf), closed)
                    /\ UNCHANGED <<buf, closed, mutex, rpc, wpc, wdata, wfill, written, dropped>>
               ELSE /\ written + len <= MaxStream
                    /\ written' = written + len
                    /\ LET data == Run(written + 1, len)
                       IN  IF OverHigh(buf, data)
                           THEN /\ mutex' = "w"
                                /\ wpc' = "loop"
                                /\ wdata' = data
                                /\ wfill' = Len(buf)
                                /\ UNCHANGED <<buf, closed, rpc, dropped, last>>
                           ELSE /\ WriteTail(buf, data, Len(buf))
                                /\ UNCHANGED dropped

\* one iteration of the discard loop, and the test that follows it
WriteDiscard ==
    /\ wpc = "loop"
    /\ dropped' = dropped + DropSize(buf, wdata)
    /\ LET kept == Discard(buf, DropSize(buf, wdata))
       IN  IF OverHigh(kept, wdata)
           THEN /\ buf' = kept
                /\ UNCHANGED <<closed, mutex, rpc, wpc, wdata, wfill, last>>
           ELSE WriteTail(kept, wdata, wfill)
    /\ UNCHANGED written

----------------------------------------------------------------------------
(* audioBuffer.Close *)

Close ==
    /\ mutex = "free"
    /\ IF ~closed
       THEN /\ closed' = TRUE
            /\ rpc' = Broadcast(rpc)
       ELSE UNCHANGED <<closed, rpc>>
    /\ last' = Returned("close", 0, 0, "nil", <<>>, Len(buf), Len(buf), closed)
    /\ UNCHANGED <<buf, mutex, wpc, wdata, wfill, written, dropped>>

----------------------------------------------------------------------------
(* The session negotiator: OpenAIRealtimeAPI *)

\* a nil c.peerConnection / c.dataChannel
Nil == 0

\* the goroutines that call Connect and Disconnect on the one OpenAIRealtimeAPI
Callers == {"a", "b"}

\* the calls of connectToRealtimeAPI that can fail, in order
SignalingSteps == <<"CreateOffer", "SetLocalDescription", "sendOffer", "SetRemoteDescription">>

\* everything outside the session
nonSesVars == <<bufVars, decVars, capVars, mainVars, otherVars>>

NewOpenAIRealtimeAPI ==
    /\ connectMutex = "free"
    /\ ephemeralToken = ""
    /\ tokenValid = FALSE
    /\ peerConnection = Nil
    /\ dataChannel = Nil
    /\ peerConnections = <<>>
    /\ dataChannels = <<>>
    /\ cpc = [c \in Callers |-> "idle"]
    /\ lpc = [c \in Callers |-> Nil]
    /\ nconn = 0
    /\ ret = [who |-> "none", op |-> "none", err |-> "nil", made |-> Nil,
             prev |-> <<"none", "nil">>, k |-> 0]
    /\ sendText = "none"

\* a lock that never blocks
CanLockAlways(m) == TRUE

\* c.connectMutex.Lock() proceeds only while nobody holds the mutex
CanLock(m) == m = "free"

\* a field left as it was after Close
ReleasedKept(ref) == ref

\* c.dataChannel = nil / c.peerConnection = nil after Close
Released(ref) == Nil

\* Connect returns err ("nil": success); the deferred Unlock runs
ConnectReturns(c, err) ==
    /\ connectMutex' = "free"
    /\ cpc' = [cpc EXCEPT ![c] = "idle"]
    /\ ret' = [who |-> c, op |-> "Connect", err |-> err, made |-> lpc[c],
               prev |-> <<ret.op, ret.err>>, k |-> 1 - ret.k]
    /\ lpc' = [lpc EXCEPT ![c] = Nil]

\* an error path that releases nothing
NoCleanUp == peerConnection # Nil /\ UNCHANGED <<peerConnections, peerConnection>>

\* Connect's clean-up on error: c.peerConnection.Close(); c.peerConnection = nil
CleanUp ==
    /\ peerConnection # Nil
    /\ peerConnections' = [peerConnections EXCEPT ![peerConnection] = @ + 1]
    /\ peerConnection' = Released(peerConnection)

\* Connect: c.connectMutex.Lock()
ConnectLock(c) ==
    /\ cpc[c] = "idle"
    /\ nconn < MaxConnects
    /\ CanLock(connectMutex)
    /\ connectMutex' = c
    /\ cpc' = [cpc EXCEPT ![c] = "token"]
    /\ nconn' = nconn + 1
    /\ UNCHANGED <<ephemeralToken, tokenValid, peerConnection, dataChannel, peerConnections, dataChannels,
                   lpc, ret, sendText>>
    /\ UNCHANGED nonSesVars

\* Connect: c.ephemeralToken != "", so no token exchange
TokenHeld(c) ==
    /\ cpc[c] = "token"
    /\ ephemeralToken # ""
    /\ cpc' = [cpc EXCEPT ![c] = "NewPeerConnection"]
    /\ UNCHANGED <<connectMutex, ephemeralToken, tokenValid, peerConnection, dataChannel,
                   peerConnections, dataChannels, lpc, nconn, ret, sendText>>
    /\ UNCHANGED nonSesVars

\* Connect: c.ephemeralToken == "", so createEphemeralToken runs; on success its
\* result is cached, on failure Connect returns the error
createEphemeralToken(c, ok) ==
    /\ cpc[c] = "token"
    /\ ephemeralToken = ""
    /\ IF ok
       THEN /\ ephemeralToken' = "secret"
            /\ tokenValid' = TRUE
            /\ cpc' = [cpc EXCEPT ![c] = "NewPeerConnection"]
            /\ UNCHANGED <<connectMutex, lpc, ret>>
       ELSE /\ ConnectReturns(c, "createEphemeralToken")
            /\ UNCHANGED <<ephemeralToken, tokenValid>>
    /\ UNCHANGED <<peerConnection, dataChannel, peerConnections, dataChannels, nconn, sendText>>
    /\ UNCHANGED nonSesVars

\* setupPeerConnection: pc, err := api.NewPeerConnection(config)
NewPeerConnection(c, ok) ==
    /\ cpc[c] = "NewPeerConnection"
    /\ IF ok
       THEN /\ peerConnections' = Append(peerConnections, 0)
            /\ lpc' = [lpc EXCEPT ![c] = Len(peerConnections) + 1]
            /\ cpc' = [cpc EXCEPT ![c] = "AddTransceiverFromTrack"]
            /\ UNCHANGED <<connectMutex, ret>>
       ELSE /\ ConnectReturns(c, "NewPeerConnection")
            /\ UNCHANGED peerConnections
    /\ UNCHANGED <<ephemeralToken, tokenValid, peerConnection, dataChannel, dataChannels, nconn, sendText>>
    /\ UNCHANGED nonSesVars

\* setupPeerConnection: pc.AddTransceiverFromTrack; on error it returns at once,
\* on success the callbacks are registered and c.peerConnection = pc
AddTransceiverFromTrack(c, ok) ==
    /\ cpc[c] = "AddTransceiverFromTrack"
    /\ IF ok
       THEN /\ peerConnection' = lpc[c]
            /\ cpc' = [cpc EXCEPT ![c] = SignalingSteps[1]]
            /\ UNCHANGED <<connectMutex, lpc, ret>>
       ELSE /\ ConnectReturns(c, "AddTransceiverFromTrack")
            /\ UNCHANGED peerConnection
    /\ UNCHANGED <<ephemeralToken, tokenValid, dataChannel, peerConnections, dataChannels, nconn, sendText>>
    /\ UNCHANGED nonSesVars

\* the step after signaling step number i
StepAfter(i) == IF i < Len(SignalingSteps) THEN SignalingSteps[i + 1] ELSE "CreateDataChannel"

\* connectToRealtimeAPI, one call at a time: CreateOffer, SetLocalDescription,
\* sendOffer (the API refuses a token that is no longer valid), SetRemoteDescription;
\* on an error Connect cleans up and returns it
connectToRealtimeAPI(c, ok) ==
    \E i \in 1 .. Len(SignalingSteps) :
        /\ cpc[c] = SignalingSteps[i]
        /\ (ok /\ SignalingSteps[i] = "sendOffer") => tokenValid
        /\ IF ok
           THEN /\ cpc' = [cpc EXCEPT ![c] = StepAfter(i)]
                /\ UNCHANGED <<connectMutex, peerConnection, peerConnections, lpc, ret>>
           ELSE /\ CleanUp
                /\ ConnectReturns(c, SignalingSteps[i])
        /\ UNCHANGED <<ephemeralToken, tokenValid, dataChannel, dataChannels, nconn, sendText>>
        /\ UNCHANGED nonSesVars

\* setupDataChannel: c.peerConnection.CreateDataChannel; on success
\* c.dataChannel = dc and Connect returns nil, on error Connect cleans up
setupDataChannel(c, ok) ==
    /\ cpc[c] = "CreateDataChannel"
    /\ peerConnection # Nil
    /\ IF ok
       THEN /\ dataChannels' = Append(dataChannels, [pc |-> peerConnection, open |-> FALSE, closes |-> 0])
            /\ dataChannel' = Len(dataChannels) + 1
            /\ ConnectReturns(c, "nil")
            /\ UNCHANGED <<peerConnection, peerConnections>>
       ELSE /\ CleanUp
            /\ ConnectReturns(c, "CreateDataChannel")
            /\ UNCHANGED <<dataChannels, dataChannel>>
    /\ UNCHANGED <<ephemeralToken, tokenValid, nconn, sendText>>
    /\ UNCHANGED nonSesVars

\* Disconnect: c.connectMutex.Lock()
DisconnectLock(c) ==
    /\ cpc[c] = "idle"
    /\ CanLock(connectMutex)
    /\ connectMutex' = c
    /\ cpc' = [cpc EXCEPT ![c] = "Disconnect"]
    /\ UNCHANGED <<ephemeralToken, tokenValid, peerConnection, dataChannel, peerConnections, dataChannels,
                   lpc, nconn, ret, sendText>>
    /\ UNCHANGED nonSesVars

\* Disconnect's body and the deferred Unlock
Disconnect(c) ==
    /\ cpc[c] = "Disconnect"
    /\ IF dataChannel # Nil
       THEN /\ dataChannels' = [dataChannels EXCEPT ![dataChannel].closes = @ + 1]
            /\ dataChannel' = Released(dataChannel)
       ELSE UNCHANGED <<dataChannels, dataChannel>>
    /\ IF peerConnection # Nil
       THEN /\ peerConnections' = [peerConnections EXCEPT ![peerConnection] = @ + 1]
            /\ peerConnection' = Released(peerConnection)
       ELSE UNCHANGED <<peerConnections, peerConnection>>
    /\ connectMutex' = "free"
    /\ cpc' = [cpc EXCEPT ![c] = "idle"]
    /\ ret' = [who |-> c, op |-> "Disconnect", err |-> "nil", made |-> Nil,
               prev |-> <<ret.op, ret.err>>, k |-> 1 - ret.k]
    /\ UNCHANGED <<ephemeralToken, tokenValid, lpc, nconn, sendText>>
    /\ UNCHANGED nonSesVars

\* the API stops accepting the ephemeral token (it expires on the server)
TokenExpires ==
    /\ ephemeralToken # ""
    /\ tokenValid
    /\ tokenValid' = FALSE
    /\ UNCHANGED <<connectMutex, ephemeralToken, peerConnection, dataChannel, peerConnections, dataChannels,
                   cpc, lpc, nconn, ret, sendText>>
    /\ UNCHANGED nonSesVars

\* a data channel is usable: it opened and Close was not called on it
Usable(d) == dataChannels[d].open /\ dataChannels[d].closes = 0 /\ peerConnections[dataChannels[d].pc] = 0

\* the transport of data channel d comes up and the channel opens
DataChannelOpen(d) ==
    /\ d \in 1 .. Len(dataChannels)
    /\ ~dataChannels[d].open
    /\ dataChannels[d].closes = 0
    /\ peerConnections[dataChannels[d].pc] = 0
    /\ dataChannels' = [dataChannels EXCEPT ![d].open = TRUE]
    /\ UNCHANGED <<connectMutex, ephemeralToken, tokenValid, peerConnection, dataChannel,
                   peerConnections, cpc, lpc, nconn, ret, sendText>>
    /\ UNCHANGED nonSesVars

\* main: Connect has returned nil, then c.dataChannel.SendText(...); a send on a
\* channel that is not open returns io.ErrClosedPipe
SendText ==
    /\ ret.op = "Connect"
    /\ ret.err = "nil"
    /\ sendText = "none"
    /\ dataChannel # Nil
    /\ sendText' = (IF Usable(dataChannel) THEN "nil" ELSE "ErrClosedPipe")
    /\ UNCHANGED <<connectMutex, ephemeralToken, tokenValid, peerConnection, dataChannel,
                   peerConnections, dataChannels, cpc, lpc, nconn, ret>>
    /\ UNCHANGED nonSesVars

NextSession ==
    \/ \E c \in Callers : ConnectLock(c)
    \/ \E c \in Callers : TokenHeld(c)
    \/ \E c \in Callers, ok \in BOOLEAN : createEphemeralToken(c, ok)
    \/ \E c \in Callers, ok \in BOOLEAN : NewPeerConnection(c, ok)
    \/ \E c \in Callers, ok \in BOOLEAN : AddTransceiverFromTrack(c, ok)
    \/ \E c \in Callers, ok \in BOOLEAN : connectToRealtimeAPI(c, ok)
    \/ \E c \in Callers, ok \in BOOLEAN : setupDataChannel(c, ok)
    \/ \E c \in Callers : DisconnectLock(c)
    \/ \E c \in Callers : Disconnect(c)
    \/ TokenExpires
    \/ \E d \in 1 .. MaxConnects : DataChannelOpen(d)
    \/ SendText

----------------------------------------------------------------------------
(* The outbound capture/encode loop (oai/main.go, the microphone goroutine) *)

\* everything outside the capture loop
nonCapVars == <<bufVars, decVars, sesVars, mainVars, otherVars>>

\* what inStream.Read can return
ReadResults == {"nil", "InputOverflowed", "error"}

\* a loop that returns on an input overflow
OnOverflowReturn == "done"

\* where the loop goes after portaudio.InputOverflowed: `continue`
OnOverflow == "capture"

\* a loop that returns on an encode error
OnEncodeErrorReturn == "done"

\* where the loop goes after an EncodeFloat32 error: `continue`
OnEncodeError == "capture"

\* a loop that goes on after a failed WriteSample
OnWriteErrorContinue == "capture"

\* where the loop goes after a WriteSample error: `return`
OnWriteError == "done"

\* the goroutine has not been started
NoCapture ==
    /\ capPc = "off"
    /\ capExit = "none"
    /\ ncap = 0
    /\ nover = 0
    /\ nencErr = 0
    /\ nhand = 0
    /\ nsent = 0

\* go func() { ... for { ... } }: the loop is at its head, nothing captured yet
StartCapture ==
    /\ capPc = "capture"
    /\ capExit = "none"
    /\ ncap = 0
    /\ nover = 0
    /\ nencErr = 0
    /\ nhand = 0
    /\ nsent = 0

\* inStream.Read(): a frame of PCM, an input overflow (logged, `continue`), or
\* another error (logged, `return`)
InStreamRead(r) ==
    /\ capPc = "capture"
    /\ ncap < MaxCaptures
    /\ ncap' = ncap + 1
    /\ IF r = "nil"
       THEN capPc' = "encode" /\ UNCHANGED <<capExit, nover>>
       ELSE IF r = "InputOverflowed"
            THEN /\ nover' = nover + 1
                 /\ capPc' = OnOverflow
                 /\ capExit' = (IF OnOverflow = "done" THEN "overflow" ELSE capExit)
            ELSE capPc' = "done" /\ capExit' = "readErr" /\ UNCHANGED nover
    /\ UNCHANGED <<nencErr, nhand, nsent>>
    /\ UNCHANGED nonCapVars

\* opusEncoder.EncodeFloat32(micBuffer, encoded): on an error, log and `continue`
EncodeFloat32(ok) ==
    /\ capPc = "encode"
    /\ IF ok
       THEN capPc' = "send" /\ UNCHANGED <<capExit, nencErr>>
       ELSE /\ nencErr' = nencErr + 1
            /\ capPc' = OnEncodeError
            /\ capExit' = (IF OnEncodeError = "done" THEN "encodeErr" ELSE capExit)
    /\ UNCHANGED <<ncap, nover, nhand, nsent>>
    /\ UNCHANGED nonCapVars

\* micTrack.WriteSample(encoded[:n]): on an error, log and `return`
WriteSample(ok) ==
    /\ capPc = "send"
    /\ nhand' = nhand + 1
    /\ IF ok
       THEN nsent' = nsent + 1 /\ capPc' = "capture" /\ UNCHANGED capExit
       ELSE /\ capPc' = OnWriteError
            /\ capExit' = (IF OnWriteError = "done" THEN "writeErr" ELSE capExit)
            /\ UNCHANGED nsent
    /\ UNCHANGED <<ncap, nover, nencErr>>
    /\ UNCHANGED nonCapVars

NextCapture ==
    \/ \E r \in ReadResults : InStreamRead(r)
    \/ \E ok \in BOOLEAN : EncodeFloat32(ok)
    \/ \E ok \in BOOLEAN : WriteSample(ok)

----------------------------------------------------------------------------
(* main of oai/main.go *)

\* some other program: no such main
NoMain ==
    /\ mainPc = "off"
    /\ pcOpen = FALSE

\* main has connected pcOffer and pcAnswer, started both loops and is in wg.Wait()
MainWaits ==
    /\ mainPc = "wait"
    /\ pcOpen = TRUE

----------------------------------------------------------------------------
(* The float-to-fixed-point sample conversions *)

\* A float32 is written [m, e] for m * 2^e.  The inputs are multiples of
\* 2^-SampleBits up to MaxSample of them, and powers of two too large for the
\* integer type of the conversion; on these the float32 products below are exact.

Abs(x) == IF x < 0 THEN -x ELSE x
Sgn(x) == IF x < 0 THEN -1 ELSE IF x > 0 THEN 1 ELSE 0
Pow2(n) == 2 ^ n

\* the number of binary digits of n > 0 (0 for n = 0)
RECURSIVE Bits(_)
Bits(n) == IF n = 0 THEN 0 ELSE 1 + Bits(n \div 2)

\* the significand of a float32 has 24 bits
MantissaBits == 24

\* the float32 nearest to the integer constant n > 0 (ties to even), as the
\* compiler converts the untyped constant in `sample * n`
Float32Const(n) ==
    LET shift == Bits(n) - MantissaBits
    IN  IF shift <= 0 THEN [m |-> n, e |-> 0]
        ELSE LET q == n \div Pow2(shift)
                 r == n % Pow2(shift)
                 half == Pow2(shift - 1)
                 up == r > half \/ (r = half /\ q % 2 = 1)
             IN  [m |-> (IF up THEN q + 1 ELSE q), e |-> shift]

\* float32 product of f and g where the exact product has at most 24 significant
\* bits once trailing zeros are dropped
RECURSIVE Normal(_)
Normal(f) == IF f.m # 0 /\ f.m % 2 = 0 THEN Normal([m |-> f.m \div 2, e |-> f.e + 1]) ELSE f
Mul(f, g) == Normal([m |-> Normal(f).m * Normal(g).m, e |-> Normal(f).e + Normal(g).e])

\* f > 1.0, f < -1.0
AboveOne(f) == LET n == Normal(f) IN n.m > 0 /\ (IF n.e >= 0 THEN n.m > 1 \/ n.e > 0
                                                  ELSE n.m > Pow2(-n.e))
BelowMinusOne(f) == AboveOne([m |-> -f.m, e |-> f.e])
One == [m |-> 1, e |-> 0]
MinusOne == [m |-> -1, e |-> 0]

\* the value of f truncated toward zero fits a signed integer of w bits
Fits(f, w) ==
    LET n == Normal(f)
    IN  \/ n.e < 0
        \/ n.m = 0
        \/ Bits(Abs(n.m)) + n.e <= w - 1
        \/ (n.m = -1 /\ n.e = w - 1)

\* the value of f truncated toward zero, for a value that fits 32 bits
Trunc(f) ==
    LET n == Normal(f)
    IN  IF n.m = -1 /\ n.e = 31 THEN -2147483647 - 1
        ELSE IF n.e >= 0 THEN n.m * Pow2(n.e) ELSE Sgn(n.m) * (Abs(n.m) \div Pow2(-n.e))

\* integers that may lie outside the range of the model's arithmetic: a value, or
\* the least / greatest value of the integer type
Val(n) == [ext |-> "none", n |-> n]
Least == [ext |-> "min", n |-> 0]
Greatest == [ext |-> "max", n |-> 0]
Less(v, n) == v.ext = "min" \/ (v.ext = "none" /\ v.n < n)
More(v, n) == v.ext = "max" \/ (v.ext = "none" /\ v.n > n)

\* intN(f) for a float32 f: the truncated value when intN can represent it;
\* otherwise the result is implementation-dependent: the least value (amd64:
\* the "integer indefinite" of CVTTSS2SI) or the saturated value (arm64: FCVTZS)
ToInt(f, w) ==
    IF Fits(f, w) THEN {Val(Trunc(f))}
    ELSE {Least, IF f.m > 0 THEN Greatest ELSE Least}

MaxInt16 == 32767
MinInt16 == -32768
MaxInt32 == 2147483647
MinInt32 == -MaxInt32 - 1

Convs == {"float32ToBytes", "recordAudioToWav", "echo"}

\* the width of the integer type each conversion converts the product to
\* (int32, int32, and int, which has 64 bits)
Width(c) == IF c = "echo" THEN 64 ELSE 32

\* the extrema of the fixed-point type each conversion produces
TargetMax(c) == IF c = "float32ToBytes" THEN MaxInt32 ELSE MaxInt16
TargetMin(c) == IF c = "float32ToBytes" THEN MinInt32 ELSE MinInt16

\* the samples a conversion is tried on
Samples(c) ==
    {[m |-> q, e |-> -SampleBits] : q \in (-MaxSample) .. MaxSample}
        \cup {[m |-> s, e |-> Width(c) - 15] : s \in {-1, 1}}

\* audio-player.go float32ToBytes: clamp to [-1, 1], int32(sample * 2147483647);
\* the set of results the builds can produce
float32ToBytes(f) ==
    LET clamped == IF AboveOne(f) THEN One ELSE IF BelowMinusOne(f) THEN MinusOne ELSE f
        ints == ToInt(Mul(clamped, Float32Const(MaxInt32)), 32)
    IN  {IF v.ext = "min" THEN MinInt32 ELSE IF v.ext = "max" THEN MaxInt32 ELSE v.n : v \in ints}

\* the clamp of audio-input.go and of the echo programs: above 32767 gives 32767,
\* below -32768 gives -32768
Clamp16(v) == IF More(v, MaxInt16) THEN MaxInt16 ELSE IF Less(v, MinInt16) THEN MinInt16 ELSE v.n

\* audio-input.go recordAudioToWav: val := int32(f * 32767), then the clamp
recordAudioToWav(f) == {Clamp16(v) : v \in ToInt(Mul(f, Float32Const(MaxInt16)), 32)}

\* oai-echo/main.go: v := int(sample * 32767), then the clamp
echo(f) == {Clamp16(v) : v \in ToInt(Mul(f, Float32Const(MaxInt16)), 64)}

Results(c, f) ==
    IF c = "float32ToBytes" THEN float32ToBytes(f)
    ELSE IF c = "recordAudioToWav" THEN recordAudioToWav(f)
    ELSE echo(f)

\* no conversion under way
NoConversion ==
    /\ conv = "none"
    /\ sample = [m |-> 0, e |-> 0]
    /\ fixed = 0
    /\ convPc = "off"

\* conversion conv is about to be applied to sample
StartConversion ==
    /\ conv \in Convs
    /\ sample \in Samples(conv)
    /\ fixed = 0
    /\ convPc = "call"

\* the conversion is applied: any of the results the builds can produce
Convert ==
    /\ convPc = "call"
    /\ fixed' \in Results(conv, sample)
    /\ convPc' = "done"
    /\ UNCHANGED <<conv, sample>>
    /\ UNCHANGED <<bufVars, decVars, sesVars, capVars, mainVars, trkVars, diagVars, paVars, rraVars, echoVars, recVars>>

----------------------------------------------------------------------------
(* The remote-track callback of setupPeerConnection *)

\* no remote track has arrived
NoTracks == loops = <<>>

\* peer connection p has its remote description: a data channel was created on it,
\* or the Connect that holds it has reached CreateDataChannel
Negotiated(p) ==
    \/ \E d \in DOMAIN dataChannels : dataChannels[d].pc = p
    \/ (p = peerConnection /\ \E c \in Callers : cpc[c] = "CreateDataChannel")

\* pc.OnTrack: a remote track arrives on open peer connection p, and the callback
\* starts `go audioWriter.WriteWebRTCTrack(track)` on the player given to Connect
OnTrack(p) ==
    /\ Len(loops) < MaxTracks
    /\ p \in DOMAIN peerConnections
    /\ peerConnections[p] = 0
    /\ Negotiated(p)
    /\ loops' = Append(loops, [pc |-> p, running |-> TRUE])
    /\ UNCHANGED <<bufVars, decVars, sesVars, capVars, mainVars, convVars, diagVars, paVars, rraVars, echoVars, recVars>>

\* a WriteWebRTCTrack goroutine returns: its ReadRTP reported an error (as it does
\* once its peer connection is closed), and the callback logs it
TrackLoopReturns(i) ==
    /\ i \in DOMAIN loops
    /\ loops[i].running
    /\ loops' = [loops EXCEPT ![i].running = FALSE]
    /\ UNCHANGED <<bufVars, decVars, sesVars, capVars, mainVars, convVars, diagVars, paVars, rraVars, echoVars, recVars>>

\* the parts of the model added after the decode loops are idle
----------------------------------------------------------------------------
(* AudioDiagnostics (audio-diagnostics.go) *)

Counts(s, p, b) == [sampleCount |-> s, packetsReceived |-> p, bytesReceived |-> b]

\* NewAudioDiagnostics: zero counters, lastPrintTime = time.Now()
NewAudioDiagnostics ==
    /\ diag = [sampleCount |-> 0, packetsReceived |-> 0, bytesReceived |-> 0,
               lastPrintTime |-> 0]
    /\ clock = 0
    /\ total = Counts(0, 0, 0)
    /\ reported = Counts(0, 0, 0)
    /\ nreports = 0

\* lines 27-29 of logStats
Count(d, payload, decodedSamples) ==
    [d EXCEPT !.sampleCount = @ + decodedSamples,
              !.packetsReceived = @ + 1,
              !.bytesReceived = @ + payload]

\* time.Since(d.lastPrintTime) >= time.Second
IntervalElapsed(d) == clock - d.lastPrintTime >= TicksPerSecond

ResetKeepsBytes(d) ==
    [d EXCEPT !.sampleCount = 0, !.packetsReceived = 0, !.lastPrintTime = clock]

\* lines 41-44 of logStats
Reset(d) ==
    [d EXCEPT !.sampleCount = 0, !.packetsReceived = 0, !.bytesReceived = 0,
              !.lastPrintTime = clock]

\* One call of logStats, made by the decode loop for a packet it decoded
\* (audio-player.go 231); d.mutex is held from entry to return.
logStats(payload, decodedSamples) ==
    /\ total.packetsReceived < MaxLogs
    /\ LET d == Count(diag, payload, decodedSamples)
       IN  /\ total' = Counts(total.sampleCount + decodedSamples,
                              total.packetsReceived + 1,
                              total.bytesReceived + payload)
           /\ IF IntervalElapsed(d)
              THEN /\ reported' = Counts(reported.sampleCount + d.sampleCount,
                                         reported.packetsReceived + d.packetsReceived,
                                         reported.bytesReceived + d.bytesReceived)
                   /\ nreports' = nreports + 1
                   /\ diag' = Reset(d)
              ELSE /\ diag' = d
                   /\ UNCHANGED <<reported, nreports>>
    /\ UNCHANGED clock
    /\ UNCHANGED <<bufVars, decVars, sesVars, capVars, mainVars, convVars, trkVars, paVars, rraVars, echoVars, recVars>>

\* Time passes between two calls
Tick ==
    /\ clock < MaxClock
    /\ clock' = clock + 1
    /\ UNCHANGED <<diag, total, reported, nreports>>
    /\ UNCHANGED <<bufVars, decVars, sesVars, capVars, mainVars, convVars, trkVars, paVars, rraVars, echoVars, recVars>>

----------------------------------------------------------------------------
(* PortaudioPlayer: NewPortaudioPlayer *)

\* NewPortaudioPlayer has returned a player: a buffer of zeros, bufferIndex 0,
\* the stream opened and started
NoPortaudio ==
    /\ ring = [j \in 1 .. RingLen |-> 0]
    /\ bufferIndex = 0
    /\ emitted = <<>>
    /\ highest = 0
    /\ stream = "started"
    /\ terminated = FALSE
    /\ closeRet = "none"

----------------------------------------------------------------------------
(* receiveRemoteAudio *)

nonRraVars == <<bufVars, decVars, sesVars, capVars, mainVars, convVars, trkVars, diagVars, paVars, echoVars, recVars>>

\* receiveRemoteAudio is not running
NoReceive ==
    /\ ctxDone = FALSE
    /\ rraPc = "off"
    /\ readerPc = "off"
    /\ speakerPc = "off"
    /\ speakerBuffers = <<>>
    /\ sbClosed = FALSE
    /\ nrtp = 0
    /\ nspoken = 0

\* receiveRemoteAudio has made the channel and started both goroutines and is
\* at <-ctx.Done()
StartReceive ==
    /\ ctxDone = FALSE
    /\ rraPc = "waitCtx"
    /\ readerPc = "select"
    /\ speakerPc = "select"
    /\ speakerBuffers = <<>>
    /\ sbClosed = FALSE
    /\ nrtp = 0
    /\ nspoken = 0

\* the context is cancelled (handleInterrupt, or the caller)
Cancel ==
    /\ rraPc # "off"
    /\ ~ctxDone
    /\ ctxDone' = TRUE
    /\ UNCHANGED <<rraPc, readerPc, speakerPc, speakerBuffers, sbClosed, nrtp, nspoken>>
    /\ UNCHANGED nonRraVars

\* goroutine 1, the select with a default at the head of its loop
ReaderSelect ==
    /\ readerPc = "select"
    /\ readerPc' = (IF ctxDone THEN "done" ELSE "read")
    /\ UNCHANGED <<ctxDone, rraPc, speakerPc, speakerBuffers, sbClosed, nrtp, nspoken>>
    /\ UNCHANGED nonRraVars

\* goroutine 1: remoteTrack.ReadRTP() returns, a packet or an error
ReaderReadRTP(ok) ==
    /\ readerPc = "read"
    /\ IF ok
       THEN /\ nrtp < MaxRtp
            /\ nrtp' = nrtp + 1
            /\ readerPc' = "send"
       ELSE /\ readerPc' = "done"
            /\ UNCHANGED nrtp
    /\ UNCHANGED <<ctxDone, rraPc, speakerPc, speakerBuffers, sbClosed, nspoken>>
    /\ UNCHANGED nonRraVars

\* a send on a closed channel panics, also one that was blocked when close ran
SendOnClosed == sbClosed

\* goroutine 1: speakerBuffers <- pcmData, which blocks while the channel is full
ReaderSend ==
    /\ readerPc = "send"
    /\ IF SendOnClosed
       THEN /\ readerPc' = "panic"
            /\ UNCHANGED speakerBuffers
       ELSE /\ Len(speakerBuffers) < SpeakerCap
            /\ speakerBuffers' = Append(speakerBuffers, nrtp)
            /\ readerPc' = "select"
    /\ UNCHANGED <<ctxDone, rraPc, speakerPc, sbClosed, nrtp, nspoken>>
    /\ UNCHANGED nonRraVars

\* goroutine 2, the case <-ctx.Done() of its select
SpeakerDone ==
    /\ speakerPc = "select"
    /\ ctxDone
    /\ speakerPc' = "done"
    /\ UNCHANGED <<ctxDone, rraPc, readerPc, speakerBuffers, sbClosed, nrtp, nspoken>>
    /\ UNCHANGED nonRraVars

\* goroutine 2, the case pcmData := <-speakerBuffers: a queued frame, or nil at
\* once from the closed and empty channel; then copy and speakerStream.Write()
SpeakerReceive ==
    /\ speakerPc = "select"
    /\ speakerBuffers # <<>> \/ sbClosed
    /\ nspoken < MaxRtp + 1
    /\ nspoken' = nspoken + 1
    /\ speakerBuffers' = (IF speakerBuffers # <<>> THEN Tail(speakerBuffers) ELSE speakerBuffers)
    /\ UNCHANGED <<ctxDone, rraPc, readerPc, speakerPc, sbClosed, nrtp>>
    /\ UNCHANGED nonRraVars

\* receiveRemoteAudio: <-ctx.Done() returns, close(speakerBuffers)
ReceiveClose ==
    /\ rraPc = "waitCtx"
    /\ ctxDone
    /\ sbClosed' = TRUE
    /\ rraPc' = "wgWait"
    /\ UNCHANGED <<ctxDone, readerPc, speakerPc, speakerBuffers, nrtp, nspoken>>
    /\ UNCHANGED nonRraVars

\* receiveRemoteAudio: wg.Wait() returns once both goroutines have returned
ReceiveReturns ==
    /\ rraPc = "wgWait"
    /\ readerPc = "done"
    /\ speakerPc = "done"
    /\ rraPc' = "returned"
    /\ UNCHANGED <<ctxDone, readerPc, speakerPc, speakerBuffers, sbClosed, nrtp, nspoken>>
    /\ UNCHANGED nonRraVars

NextReceive ==
    \/ Cancel
    \/ ReaderSelect
    \/ \E ok \in BOOLEAN : ReaderReadRTP(ok)
    \/ ReaderSend
    \/ SpeakerDone
    \/ SpeakerReceive
    \/ ReceiveClose
    \/ ReceiveReturns

----------------------------------------------------------------------------
(* The echo programs *)

nonEchoVars == <<bufVars, decVars, sesVars, capVars, mainVars, convVars, trkVars, diagVars, paVars, rraVars, recVars>>

NoEcho ==
    /\ echoPc = "off"
    /\ ncapt = 0
    /\ sleeping = <<>>
    /\ runnable = {}
    /\ sendq = <<>>
    /\ echoChan = <<>>
    /\ echoOut = <<>>

\* main has started both streams and the capture goroutine
StartEcho ==
    /\ echoPc = "run"
    /\ ncapt = 0
    /\ sleeping = <<>>
    /\ runnable = {}
    /\ sendq = <<>>
    /\ echoChan = <<>>
    /\ echoOut = <<>>

\* what one iteration of the capture loop can meet
EchoResults == {"ok", "overflow", "readErr", "writeErr"}

\* one iteration of the capture loop: inStream.Read (which lasts one frame, so
\* that a delay goroutine started DelayFrames frames ago has slept), the WAV
\* write, and `go func(data) { time.Sleep(echoDelay); echoChan <- data }`
EchoCapture(r) ==
    /\ echoPc = "run"
    /\ CASE r = "ok" ->
              /\ ncapt < MaxEcho
              /\ Len(sleeping) < DelayFrames
              /\ ncapt' = ncapt + 1
              /\ sleeping' = Append(sleeping, ncapt + 1)
              /\ UNCHANGED echoPc
         [] r = "overflow" -> UNCHANGED <<echoPc, ncapt, sleeping>>
         [] OTHER -> echoPc' = "done" /\ UNCHANGED <<ncapt, sleeping>>
    /\ UNCHANGED <<runnable, sendq, echoChan, echoOut>>
    /\ UNCHANGED nonEchoVars

\* the oldest time.Sleep ends: its goroutine can run
EchoSlept ==
    /\ sleeping # <<>>
    /\ runnable' = runnable \cup {Head(sleeping)}
    /\ sleeping' = Tail(sleeping)
    /\ UNCHANGED <<echoPc, ncapt, sendq, echoChan, echoOut>>
    /\ UNCHANGED nonEchoVars

\* the scheduler runs one of the goroutines that have slept: echoChan <- data,
\* which parks it behind the senders already parked while the channel is full
EchoSend(g) ==
    /\ g \in runnable
    /\ runnable' = runnable \ {g}
    /\ IF Len(echoChan) < EchoCap
       THEN echoChan' = Append(echoChan, g) /\ UNCHANGED sendq
       ELSE sendq' = Append(sendq, g) /\ UNCHANGED echoChan
    /\ UNCHANGED <<echoPc, ncapt, sleeping, echoOut>>
    /\ UNCHANGED nonEchoVars

\* the output callback finds a frame in echoChan and plays it; the oldest
\* parked sender, if any, completes its send (with no frame the callback
\* plays silence and changes nothing)
EchoCallback ==
    /\ echoPc # "off"
    /\ echoChan # <<>>
    /\ echoOut' = Append(echoOut, Head(echoChan))
    /\ IF sendq # <<>>
       THEN echoChan' = Append(Tail(echoChan), Head(sendq)) /\ sendq' = Tail(sendq)
       ELSE echoChan' = Tail(echoChan) /\ UNCHANGED sendq
    /\ UNCHANGED <<echoPc, ncapt, sleeping, runnable>>
    /\ UNCHANGED nonEchoVars

NextEcho ==
    \/ \E r \in EchoResults : EchoCapture(r)
    \/ EchoSlept
    \/ \E g \in 1 .. MaxEcho : EchoSend(g)
    \/ EchoCallback

----------------------------------------------------------------------------
(* recordAudioToWav *)

nonRecVars == <<bufVars, decVars, sesVars, capVars, mainVars, convVars, trkVars, diagVars, paVars, rraVars, echoVars>>

NoRecord ==
    /\ recPc = "off"
    /\ releases = <<>>
    /\ recRet = "none"

\* the decoder and the WAV file are set up, the loop is at its head
StartRecord ==
    /\ recPc = "read"
    /\ releases = <<>>
    /\ recRet = "none"

\* what the head of the loop can meet: a buffer, the duration elapsed, io.EOF,
\* another read error
RecReadResults == {"ok", "elapsed", "eof", "err"}

\* steps 5a and 5b: the duration test and encodedReader.Read
RecRead(r) ==
    /\ recPc = "read"
    /\ CASE r = "ok" ->
              /\ Len(releases) < MaxRec
              /\ releases' = Append(releases, 0)
              /\ recPc' = "frame"
              /\ UNCHANGED recRet
         [] r = "err" ->
              recPc' = "done" /\ recRet' = "readErr" /\ UNCHANGED releases
         [] OTHER ->
              recPc' = "done" /\ recRet' = "nil" /\ UNCHANGED releases
    /\ UNCHANGED nonRecVars

\* the paths of the loop body once a buffer is held
FramePaths == {"empty", "decodeErr", "zero", "writeErr", "success"}

\* release() is called after a successful decode only: the empty frame and the
\* decode error leave the loop body before it
Releases(path) == IF path \in {"empty", "decodeErr"} THEN 0 ELSE 1

\* steps 5c to 5f on the buffer just read
RecFrame(path) ==
    /\ recPc = "frame"
    /\ releases' = [releases EXCEPT ![Len(releases)] = @ + Releases(path)]
    /\ IF path = "writeErr"
       THEN recPc' = "done" /\ recRet' = "writeErr"
       ELSE recPc' = "read" /\ UNCHANGED recRet
    /\ UNCHANGED nonRecVars

NextRecord ==
    \/ \E r \in RecReadResults : RecRead(r)
    \/ \E path \in FramePaths : RecFrame(path)

OthersIdle == NoConversion /\ NoTracks /\ NewAudioDiagnostics /\ NoPortaudio /\ NoReceive /\ NoEcho /\ NoRecord

----------------------------------------------------------------------------

(* The inbound decode loops *)

Players == {"v2", "v3", "oai"}
UsesBuffer(p) == p \in {"v2", "v3"}

\* the players, PortaudioPlayer ("pa") among them, have a closed flag and a mutex
IsPlayer(p) == p \in {"v2", "v3", "pa"}

\* what ReadRTP can return besides an error: a packet that fails to decode, or one
\* that decodes to k units of PCM
Packets == {[ok |-> FALSE, k |-> 0]} \cup {[ok |-> TRUE, k |-> k] : k \in 0 .. MaxFrame}

\* the length handed on for a frame that decoded to k units: v2 writes
\* byteBuf[:nBytes], v3 writes the whole fixed-size pcmBuf, oai sends decoded[:n]
FrameLen(p, k) == IF p = "v3" THEN MaxFrame ELSE k

\* len(out) of the output-stream callback (one frame)
OutLen == MaxFrame

\* a loop that returns on a decode error
OnDecodeErrorReturn == "done"

\* where the loop goes after a decode error: `continue`
OnDecodeError == "top"

NoLoop ==
    /\ player = "none"
    /\ dpc = "done"
    /\ dexit = "none"
    /\ apClosed = FALSE
    /\ apMutex = "free"
    /\ pkt = [id |-> 0, len |-> 0]
    /\ nframes = 0
    /\ nbad = 0
    /\ ndeliv = 0
    /\ queue = <<>>
    /\ cbOut = [id |-> 0, copied |-> 0, zeros |-> 0]

\* the head of the loop: the players test ap.closed, the oai goroutine tests nothing
LoopTop ==
    /\ dpc = "top"
    /\ IF IsPlayer(player) /\ apClosed
       THEN dpc' = "done" /\ dexit' = "closed"
       ELSE dpc' = "read" /\ UNCHANGED dexit
    /\ UNCHANGED <<player, apClosed, apMutex, pkt, nframes, nbad, ndeliv, queue, cbOut>>
    /\ UNCHANGED <<bufVars, restVars>>

\* a loop that goes back to its head after a ReadRTP error
ReadRTPErrorContinue ==
    /\ dpc = "read"
    /\ dpc' = "top"
    /\ dexit' = "readErr"
    /\ UNCHANGED <<player, apClosed, apMutex, pkt, nframes, nbad, ndeliv, queue, cbOut>>
    /\ UNCHANGED <<bufVars, restVars>>

\* ReadRTP returns an error: the loop returns
ReadRTPError ==
    /\ dpc = "read"
    /\ dpc' = "done"
    /\ dexit' = "readErr"
    /\ UNCHANGED <<player, apClosed, apMutex, pkt, nframes, nbad, ndeliv, queue, cbOut>>
    /\ UNCHANGED <<bufVars, restVars>>

\* ReadRTP returns packet p; the loop locks ap.mutex (the players) and decodes it
ReadRTPPacket(p) ==
    /\ dpc = "read"
    /\ nframes < MaxFrames
    /\ written + FrameLen(player, p.k) <= MaxStream
    /\ IsPlayer(player) => apMutex = "free"
    /\ nframes' = nframes + 1
    /\ IF p.ok
       THEN /\ pkt' = [id |-> nframes + 1, len |-> FrameLen(player, p.k)]
            /\ dpc' = "decoded"
            /\ apMutex' = (IF IsPlayer(player) THEN "loop" ELSE apMutex)
            /\ UNCHANGED <<dexit, nbad>>
       ELSE /\ nbad' = nbad + 1
            /\ dpc' = OnDecodeError
            /\ dexit' = (IF OnDecodeError = "done" THEN "decodeErr" ELSE dexit)
            /\ UNCHANGED <<pkt, apMutex>>
    /\ UNCHANGED <<player, apClosed, ndeliv, queue, cbOut>>
    /\ UNCHANGED <<bufVars, restVars>>

\* OpusV3AudioPlayer.Close has set ap.player = nil (it does so together with
\* ap.closed = true, under ap.mutex); OpusV2AudioPlayer.Close keeps its handle
PlayerReleased == player = "v3" /\ apClosed

\* an iteration that ends without ap.mutex.Unlock()
AfterWriteLocked ==
    /\ ndeliv' = (IF last'.err = "nil" THEN ndeliv + 1 ELSE ndeliv)
    /\ apMutex' = apMutex
    /\ dpc' = "top"
    /\ UNCHANGED dexit

\* audioBuffer.Write has returned to the loop: on an error unlock ap.mutex and
\* continue; otherwise count the frame, unlock, and call ap.player.IsPlaying(),
\* which dereferences the handle: on a nil handle the goroutine panics
AfterWrite ==
    /\ ndeliv' = (IF last'.err = "nil" THEN ndeliv + 1 ELSE ndeliv)
    /\ apMutex' = "free"
    /\ IF last'.err = "nil" /\ PlayerReleased
       THEN dpc' = "done" /\ dexit' = "nilPlayer"
       ELSE dpc' = "top" /\ UNCHANGED dexit

\* the players hand the decoded frame to ap.audioBuffer.Write
WriteFrame ==
    /\ dpc = "decoded"
    /\ UsesBuffer(player)
    /\ WriteCall(pkt.len)
    /\ IF wpc' = "loop"
       THEN dpc' = "writing" /\ UNCHANGED <<apMutex, ndeliv, dexit>>
       ELSE AfterWrite
    /\ UNCHANGED <<player, apClosed, pkt, nframes, nbad, queue, cbOut>>
    /\ UNCHANGED restVars

\* that Write is inside its discard loop
WriteFrameLoop ==
    /\ dpc = "writing"
    /\ WriteDiscard
    /\ IF wpc' = "loop"
       THEN UNCHANGED <<dpc, apMutex, ndeliv, dexit>>
       ELSE AfterWrite
    /\ UNCHANGED <<player, apClosed, pkt, nframes, nbad, queue, cbOut>>
    /\ UNCHANGED restVars

\* oai/main.go: decodedSamplesQueue <- decoded[:n], which blocks while the queue is full
SendFrame ==
    /\ dpc = "decoded"
    /\ player = "oai"
    /\ Len(queue) < QueueCap
    /\ queue' = Append(queue, pkt)
    /\ ndeliv' = ndeliv + 1
    /\ dpc' = "top"
    /\ UNCHANGED <<player, dexit, apClosed, apMutex, pkt, nframes, nbad, cbOut>>
    /\ UNCHANGED <<bufVars, restVars>>

\* OpusV2AudioPlayer.Close / OpusV3AudioPlayer.Close
PlayerClose ==
    /\ UsesBuffer(player)
    /\ apMutex = "free"
    /\ apClosed' = TRUE
    /\ UNCHANGED <<player, dpc, dexit, apMutex, pkt, nframes, nbad, ndeliv, queue, cbOut>>
    /\ UNCHANGED <<bufVars, restVars>>

\* oai/main.go: the output-stream callback: one frame from the queue if there is
\* one (the rest of out zeroed), silence otherwise
OutputCallback ==
    /\ player = "oai"
    /\ IF queue # <<>>
       THEN LET data == Head(queue)
                copyLen == Min(data.len, OutLen)
            IN  /\ cbOut' = [id |-> data.id, copied |-> copyLen, zeros |-> OutLen - copyLen]
                /\ queue' = Tail(queue)
       ELSE /\ cbOut' = [id |-> 0, copied |-> 0, zeros |-> OutLen]
            /\ UNCHANGED queue
    /\ UNCHANGED <<player, dpc, dexit, apClosed, apMutex, pkt, nframes, nbad, ndeliv>>
    /\ UNCHANGED <<bufVars, restVars>>

\* the oto player pulls PCM through audioBuffer.Read
PullRead(req) == UsesBuffer(player) /\ ReadCall("r1", req) /\ UNCHANGED <<decVars, restVars>>
PullWake(req) == UsesBuffer(player) /\ ReadWake("r1", req) /\ UNCHANGED <<decVars, restVars>>

\* what ReadRTP delivers in the runs of the whole program: a packet that fails to
\* decode, one that decodes to nothing, one that decodes to a full frame
OaiPackets == {p \in Packets : p.k \in {0, MaxFrame}}

\* the OnTrack goroutine of oai/main.go at the head of its loop
InitOaiLoop ==
    /\ player = "oai"
    /\ dpc = "top"
    /\ dexit = "none"
    /\ apClosed = FALSE
    /\ apMutex = "free"
    /\ pkt = [id |-> 0, len |-> 0]
    /\ nframes = 0
    /\ nbad = 0
    /\ ndeliv = 0
    /\ queue = <<>>
    /\ cbOut = [id |-> 0, copied |-> 0, zeros |-> 0]

InitDecode ==
    /\ newAudioBuffer
    /\ player \in Players
    /\ dpc = "top"
    /\ dexit = "none"
    /\ apClosed = FALSE
    /\ apMutex = "free"
    /\ pkt = [id |-> 0, len |-> 0]
    /\ nframes = 0
    /\ nbad = 0
    /\ ndeliv = 0
    /\ queue = <<>>
    /\ cbOut = [id |-> 0, copied |-> 0, zeros |-> 0]
    /\ NewOpenAIRealtimeAPI
    /\ NoCapture
    /\ NoMain
    /\ OthersIdle

NextDecode ==
    \/ LoopTop
    \/ ReadRTPError
    \/ \E p \in Packets : ReadRTPPacket(p)
    \/ WriteFrame
    \/ WriteFrameLoop
    \/ SendFrame
    \/ PlayerClose
    \/ OutputCallback
    \/ \E req \in ReadLens : PullRead(req)
    \/ \E req \in ReadLens : PullWake(req)

SpecDecode == InitDecode /\ [][NextDecode]_vars

\* the scheduling the Go runtime gives the loop's goroutine: every step of its own
\* that stays possible is taken; the network owes it neither a packet nor an error
FairDecode ==
    /\ InitDecode
    /\ [][NextDecode]_vars
    /\ WF_vars(LoopTop)
    /\ WF_vars(WriteFrame)
    /\ WF_vars(WriteFrameLoop)
    /\ WF_vars(SendFrame)

----------------------------------------------------------------------------
(* PortaudioPlayer: WriteWebRTCTrack, processAudio, Close *)

nonPaVars == <<bufVars, sesVars, capVars, mainVars, convVars, trkVars, diagVars, rraVars, echoVars, recVars>>

\* the position of ap.buffer that is i positions after bufferIndex; processAudio
\* sets bufferIndex back to 0 when it has reached len(ap.buffer)
RingPos(i) == ((bufferIndex + i) % RingLen) + 1

\* the number of a decoded sample: the samples of frame f are numbered upwards
\* from SampleNo(f, 1), above every sample of the frames before it
SampleNo(f, i) == f * (MaxFrame + 1) + i

\* the greatest element of a sequence of naturals (0 if there is none)
RECURSIVE MaxOf(_)
MaxOf(q) == IF q = <<>> THEN 0 ELSE LET m == MaxOf(Tail(q)) IN IF Head(q) > m THEN Head(q) ELSE m

\* the loop writes the decoded frame into ap.buffer from bufferIndex on, which it
\* leaves as it is, unlocks ap.mutex and goes to the next iteration
WriteRing ==
    /\ dpc = "decoded"
    /\ player = "pa"
    /\ ring' = [j \in 1 .. RingLen |->
                 LET i == (j - 1 - bufferIndex) % RingLen
                 IN  IF i < pkt.len THEN SampleNo(pkt.id, i + 1) ELSE ring[j]]
    /\ ndeliv' = ndeliv + 1
    /\ apMutex' = "free"
    /\ dpc' = "top"
    /\ UNCHANGED <<player, dexit, apClosed, pkt, nframes, nbad, queue, cbOut>>
    /\ UNCHANGED <<bufferIndex, emitted, highest, stream, terminated, closeRet>>
    /\ UNCHANGED nonPaVars

\* the hardware callback of the started stream: with ap.mutex held it copies
\* len(out) samples from bufferIndex on and advances bufferIndex
processAudio ==
    /\ player = "pa"
    /\ stream = "started"
    /\ apMutex = "free"
    /\ emitted' = [i \in 1 .. OutLen |-> ring[RingPos(i - 1)]]
    /\ highest' = MaxOf(<<highest>> \o emitted)
    /\ bufferIndex' = RingPos(OutLen - 1)
    /\ UNCHANGED <<ring, stream, terminated, closeRet>>
    /\ UNCHANGED <<decVars, nonPaVars>>

\* what a call that Close makes can do: "nil" (all succeed), or the named call fails
CloseResults == {"nil", "Stop", "Close", "Terminate"}

\* Close sets ap.closed = true before it stops the stream, whatever follows
MarkClosed(r) == TRUE

\* PortaudioPlayer.Close, with ap.mutex held from entry to return
PaClose(r) ==
    /\ player = "pa"
    /\ apMutex = "free"
    /\ IF apClosed
       THEN /\ closeRet' = "nil"
            /\ UNCHANGED <<apClosed, stream, terminated>>
       ELSE /\ apClosed' = MarkClosed(r)
            /\ closeRet' = r
            /\ stream' = (CASE r = "Stop" -> stream
                            [] r = "Close" -> "stopped"
                            [] OTHER -> "closed")
            /\ terminated' = (r = "nil")
    /\ UNCHANGED <<player, dpc, dexit, apMutex, pkt, nframes, nbad, ndeliv, queue, cbOut>>
    /\ UNCHANGED <<ring, bufferIndex, emitted, highest>>
    /\ UNCHANGED nonPaVars

\* the PortaudioPlayer with its loop at the head of the first iteration
InitPortaudio ==
    /\ newAudioBuffer
    /\ player = "pa"
    /\ dpc = "top"
    /\ dexit = "none"
    /\ apClosed = FALSE
    /\ apMutex = "free"
    /\ pkt = [id |-> 0, len |-> 0]
    /\ nframes = 0
    /\ nbad = 0
    /\ ndeliv = 0
    /\ queue = <<>>
    /\ cbOut = [id |-> 0, copied |-> 0, zeros |-> 0]
    /\ NewOpenAIRealtimeAPI
    /\ NoCapture
    /\ NoMain
    /\ OthersIdle

NextPortaudio ==
    \/ LoopTop
    \/ ReadRTPError
    \/ \E p \in OaiPackets : ReadRTPPacket(p)
    \/ WriteRing
    \/ processAudio
    \/ \E r \in CloseResults : PaClose(r)

SpecPortaudio == InitPortaudio /\ [][NextPortaudio]_vars

\* receiveRemoteAudio running, cancelled at any moment
InitReceive ==
    /\ newAudioBuffer /\ NoLoop /\ NewOpenAIRealtimeAPI /\ NoCapture /\ NoMain
    /\ NoConversion /\ NoTracks /\ NewAudioDiagnostics /\ NoPortaudio /\ NoEcho /\ NoRecord
    /\ StartReceive

SpecReceive == InitReceive /\ [][NextReceive]_vars

\* an echo program running
InitEcho ==
    /\ newAudioBuffer /\ NoLoop /\ NewOpenAIRealtimeAPI /\ NoCapture /\ NoMain
    /\ NoConversion /\ NoTracks /\ NewAudioDiagnostics /\ NoPortaudio /\ NoReceive
    /\ StartEcho /\ NoRecord

SpecEcho == InitEcho /\ [][NextEcho]_vars

\* recordAudioToWav at the head of its loop
InitRecord ==
    /\ newAudioBuffer /\ NoLoop /\ NewOpenAIRealtimeAPI /\ NoCapture /\ NoMain
    /\ NoConversion /\ NoTracks /\ NewAudioDiagnostics /\ NoPortaudio /\ NoReceive
    /\ NoEcho /\ StartRecord

SpecRecord == InitRecord /\ [][NextRecord]_vars

\* the two players whose loops decode with hraban/opus under ap.mutex, each with
\* its loop at the head of the first iteration, its Close and its playback pull
LockingPlayers == {"v2", "pa"}

InitPlayers ==
    /\ newAudioBuffer
    /\ player \in LockingPlayers
    /\ dpc = "top"
    /\ dexit = "none"
    /\ apClosed = FALSE
    /\ apMutex = "free"
    /\ pkt = [id |-> 0, len |-> 0]
    /\ nframes = 0
    /\ nbad = 0
    /\ ndeliv = 0
    /\ queue = <<>>
    /\ cbOut = [id |-> 0, copied |-> 0, zeros |-> 0]
    /\ NewOpenAIRealtimeAPI
    /\ NoCapture
    /\ NoMain
    /\ OthersIdle

\* the packets each loop is given: an empty or a full frame, and for the
\* buffer-backed loop also a frame one sample short, which makes Write meet the
\* high-water mark with a fill that one discard does not clear
PlayerPackets ==
    IF player = "pa"
    THEN OaiPackets
    ELSE {p \in Packets : p.k \in {0, MaxFrame - 1, MaxFrame}}

NextPlayers ==
    \/ LoopTop
    \/ ReadRTPError
    \/ \E p \in PlayerPackets : ReadRTPPacket(p)
    \/ WriteFrame
    \/ WriteFrameLoop
    \/ PlayerClose
    \/ \E req \in ReadLens : PullRead(req)
    \/ \E req \in ReadLens : PullWake(req)
    \/ WriteRing
    \/ processAudio
    \/ \E r \in CloseResults : PaClose(r)

SpecPlayers == InitPlayers /\ [][NextPlayers]_vars

----------------------------------------------------------------------------

Init == newAudioBuffer /\ NoLoop /\ NewOpenAIRealtimeAPI /\ NoCapture /\ NoMain /\ OthersIdle

\* audioBuffer driven by arbitrary callers: any Read, Write and Close, in any order
CallRead(r, req) == ReadCall(r, req) /\ UNCHANGED <<decVars, restVars>>
WakeRead(r, req) == ReadWake(r, req) /\ UNCHANGED <<decVars, restVars>>
CallWrite(len) == WriteCall(len) /\ UNCHANGED <<decVars, restVars>>
LoopWrite == WriteDiscard /\ UNCHANGED <<decVars, restVars>>
CallClose == Close /\ UNCHANGED <<decVars, restVars>>

Next ==
    \/ \E r \in Readers, req \in ReadLens : CallRead(r, req)
    \/ \E r \in Readers, req \in ReadLens : WakeRead(r, req)
    \/ \E len \in DataLens : CallWrite(len)
    \/ LoopWrite
    \/ CallClose

Spec == Init /\ [][Next]_vars

\* the session negotiator driven by two callers, with every step free to fail
SpecSession == Init /\ [][NextSession]_vars

\* the capture loop of oai/main.go running, with every call free to fail
InitCapture ==
    newAudioBuffer /\ NoLoop /\ NewOpenAIRealtimeAPI /\ StartCapture /\ NoMain /\ OthersIdle
SpecCapture == InitCapture /\ [][NextCapture]_vars

\* the whole of oai/main.go: the OnTrack decode goroutine, the output callback and
\* the capture goroutine run until main returns
InitOai ==
    /\ newAudioBuffer
    /\ InitOaiLoop
    /\ NewOpenAIRealtimeAPI
    /\ StartCapture
    /\ MainWaits
    /\ OthersIdle

\* a goroutine or callback of the process takes a step only while main has not returned
OaiLoopTop == mainPc = "wait" /\ LoopTop
OaiReadRTPError == mainPc = "wait" /\ ReadRTPError
OaiReadRTPPacket(p) == mainPc = "wait" /\ ReadRTPPacket(p)
OaiSendFrame == mainPc = "wait" /\ SendFrame
OaiOutputCallback == mainPc = "wait" /\ OutputCallback
OaiInStreamRead(r) == mainPc = "wait" /\ InStreamRead(r)
OaiEncodeFloat32(ok) == mainPc = "wait" /\ EncodeFloat32(ok)
OaiWriteSample(ok) == mainPc = "wait" /\ WriteSample(ok)

\* the capture goroutine has returned, so wg.Wait() returns and main returns: the
\* deferred Close of both peer connections and of the streams runs, the process ends
MainReturns ==
    /\ mainPc = "wait"
    /\ capPc = "done"
    /\ mainPc' = "exited"
    /\ pcOpen' = FALSE
    /\ UNCHANGED <<bufVars, decVars, sesVars, capVars, otherVars>>

NextOai ==
    \/ OaiLoopTop
    \/ OaiReadRTPError
    \/ \E p \in OaiPackets : OaiReadRTPPacket(p)
    \/ OaiSendFrame
    \/ OaiOutputCallback
    \/ \E r \in ReadResults : OaiInStreamRead(r)
    \/ \E ok \in BOOLEAN : OaiEncodeFloat32(ok)
    \/ \E ok \in BOOLEAN : OaiWriteSample(ok)
    \/ MainReturns

SpecOai == InitOai /\ [][NextOai]_vars

\* each conversion applied once to each sample
InitConvert ==
    /\ newAudioBuffer /\ NoLoop /\ NewOpenAIRealtimeAPI /\ NoCapture /\ NoMain
    /\ StartConversion /\ NoTracks /\ NewAudioDiagnostics /\ NoPortaudio /\ NoReceive /\ NoEcho /\ NoRecord
NextConvert == Convert
SpecConvert == InitConvert /\ [][NextConvert]_vars

\* main.go: one goroutine calls Connect and Disconnect with the one player, each
\* step free to fail, while remote tracks arrive and their loops end
NextTracks ==
    \/ ConnectLock("a")
    \/ TokenHeld("a")
    \/ \E ok \in BOOLEAN : createEphemeralToken("a", ok)
    \/ \E ok \in BOOLEAN : NewPeerConnection("a", ok)
    \/ \E ok \in BOOLEAN : AddTransceiverFromTrack("a", ok)
    \/ \E ok \in BOOLEAN : connectToRealtimeAPI("a", ok)
    \/ \E ok \in BOOLEAN : setupDataChannel("a", ok)
    \/ DisconnectLock("a")
    \/ Disconnect("a")
    \/ \E p \in 1 .. MaxConnects : OnTrack(p)
    \/ \E i \in 1 .. MaxTracks : TrackLoopReturns(i)

SpecTracks == Init /\ [][NextTracks]_vars

\* The diagnostics on their own: any payload size, no or one frame of samples
NextDiagnostics ==
    \/ \E payload \in 0..MaxPayload, n \in {0, MaxFrame} : logStats(payload, n)
    \/ Tick

SpecDiagnostics == Init /\ [][NextDiagnostics]_vars


\* the scheduling the Go runtime gives: a signalled goroutine is rescheduled and
\* gets the mutex once it stays free, and the goroutine inside Write keeps running
WakeReads(r) == \E req \in ReadLens : WakeRead(r, req)

FairSpec ==
    /\ Init
    /\ [][Next]_vars
    /\ \A r \in Readers : WF_vars(WakeReads(r))
    /\ WF_vars(LoopWrite)

\* The one consumer of the buffer keeps calling Read with a slice that is not
\* empty, whatever the producer does: the producer may stop writing at any time,
\* with or without Close.  A call is made whenever the consumer is outside Read,
\* a signalled consumer runs again, and the discard loop goes on.
Consumer == "r1"
ReadLensDrain == 1 .. MaxRead
CallReads == \E req \in ReadLensDrain : CallRead(Consumer, req)
WakeReadsDrain == \E req \in ReadLensDrain : WakeRead(Consumer, req)

NextDrain ==
    \/ \E req \in ReadLensDrain : CallRead(Consumer, req)
    \/ \E req \in ReadLensDrain : WakeRead(Consumer, req)
    \/ \E len \in DataLens : CallWrite(len)
    \/ LoopWrite
    \/ CallClose

FairDrain ==
    /\ Init
    /\ [][NextDrain]_vars
    /\ WF_vars(CallReads)
    /\ WF_vars(WakeReadsDrain)
    /\ WF_vars(LoopWrite)

----------------------------------------------------------------------------
(* Properties of audioBuffer *)

\* call op returns in this step
Returns(op) == last'.k # last.k /\ last'.op = op

\* s is a run of consecutive stream positions
IsRun(s) == \A i \in 1 .. (Len(s) - 1) : s[i + 1] = s[i] + 1

\* b2 is b without some oldest prefix, followed by data
KeepsSuffix(b, b2, data) == \E d \in 0 .. Len(b) : b2 = Drop(b, d) \o data

\* C1: the fill never leaves 0 .. capacity, and a Write that returns after data
\* that would have raised the fill above the high-water mark leaves fill <= high-water.
C1_Watermark ==
    /\ Len(buf) >= 0
    /\ Len(buf) <= bufferCapacity
    /\ last.after <= bufferCapacity
    /\ (last.op = "write" /\ last.err = "nil" /\ last.fill + last.arg > highWaterMark)
          => last.after <= highWaterMark

C1_Witness ==
    /\ last.op = "write"
    /\ last.err = "nil"
    /\ last.fill + last.arg > highWaterMark
    /\ last.after = Len(buf)

\* C2 (as claimed): Write's discard loop terminates for every data length: each
\* iteration that finds the buffer still over the high-water mark removes at
\* least one byte, so the loop ends and Write returns, releasing the mutex.
C2_DiscardLoopTerminates ==
    (wpc = "loop" /\ OverHigh(buf, wdata)) => DropSize(buf, wdata) > 0

\* C3: the retained bytes are always the most recently written suffix of the
\* logical stream; a Write removes only an oldest prefix; a Read returns the
\* oldest retained bytes, in order, and removes them (so no byte comes twice).
C3_FifoAfterDiscard ==
    [][ /\ IsRun(buf' \o wdata')
        /\ (buf' \o wdata' # <<>>) => (buf' \o wdata')[Len(buf' \o wdata')] = written'
        /\ wpc' = "loop" => KeepsSuffix(buf, buf', <<>>)
        /\ Returns("write") => KeepsSuffix(buf, buf', last'.bytes)
        /\ Returns("read") => (IsRun(last'.bytes) /\ buf = last'.bytes \o buf')
      ]_vars

C3_Witness ==
    /\ last.op = "read"
    /\ last.n > 1
    /\ dropped > 0
    /\ buf # <<>>

\* C4: a Read returns only from a critical section that found fill >= low-water
\* or the buffer closed; a Write that leaves the fill below the low-water mark
\* wakes no parked reader, and one that brings it to the mark or above wakes one.
C4_BlockingReadThreshold ==
    [][ /\ Returns("read") => (last'.fill >= lowWaterMark \/ last'.wasClosed)
        /\ (Returns("write") /\ last'.after < lowWaterMark)
              => \A r \in Readers : rpc[r] = "wait" => rpc'[r] = "wait"
        /\ (Returns("write") /\ last'.arg > 0 /\ last'.err = "nil"
              /\ last'.after >= lowWaterMark /\ Waiters(rpc) # {})
              => \E r \in Waiters(rpc) : rpc'[r] = "woken"
      ]_vars

C4_Witness ==
    /\ last.op = "write"
    /\ last.fill > 0
    /\ last.fill < lowWaterMark
    /\ last.after >= lowWaterMark
    /\ \E r \in Readers : rpc[r] = "woken"

\* C5: once the buffer is closed no Read parks; a Read of a closed buffer holding
\* k > 0 bytes returns the oldest min(len, k) of them without error, a Read
\* reports EOF exactly when the buffer is closed and empty, and a closed empty
\* buffer stays closed and empty.
C5_CloseDrainsThenEnds ==
    [][ /\ closed' => Waiters(rpc') = {}
        /\ (Returns("read") /\ last'.wasClosed /\ Len(buf) > 0)
              => /\ last'.err = "nil"
                 /\ last'.n = Min(last'.arg, Len(buf))
                 /\ buf = last'.bytes \o buf'
        /\ Returns("read") => (last'.err = "EOF" <=> (closed /\ Len(buf) = 0))
        /\ (Returns("read") /\ last'.err = "EOF") => (last'.n = 0 /\ buf' = buf)
        /\ (closed /\ Len(buf) = 0) => (closed' /\ Len(buf') = 0)
      ]_vars

C5_Witness ==
    /\ last.op = "read"
    /\ last.wasClosed
    /\ last.fill > 0
    /\ last.fill < lowWaterMark
    /\ last.n = last.fill
    /\ last.err = "nil"

\* C6 (as claimed): every Write after Close, whatever the length of its data,
\* returns ErrClosedPipe and leaves the buffer unchanged.
C6_EveryWriteAfterCloseFails ==
    [][ (Returns("write") /\ closed)
           => (last'.err = "ErrClosedPipe" /\ last'.n = 0 /\ buf' = buf) ]_vars

\* C6 (amended): every Write of non-empty data after Close returns ErrClosedPipe
\* with n = 0, a Write of empty data returns (0, nil), and both leave the buffer
\* unchanged.
C6_NonEmptyWriteAfterCloseFails ==
    [][ (Returns("write") /\ closed)
           => /\ last'.n = 0
              /\ buf' = buf
              /\ last'.err = (IF last'.arg > 0 THEN "ErrClosedPipe" ELSE "nil")
      ]_vars

C6_Witness ==
    /\ last.op = "write"
    /\ last.wasClosed
    /\ last.arg > 0
    /\ last.err = "ErrClosedPipe"
    /\ Len(buf) > 0

\* C7: Close leaves the buffer closed with no reader parked and returns nil; a
\* Close of a closed buffer changes nothing; every reader that is inside Read
\* once the buffer is closed eventually returns.
C7_CloseIdempotentWakesAll ==
    /\ [][ Returns("close")
              => /\ closed'
                 /\ Waiters(rpc') = {}
                 /\ last'.err = "nil"
                 /\ closed => UNCHANGED <<buf, closed, mutex, rpc, wpc, wdata, written>>
         ]_vars
    /\ closed ~> (\A r \in Readers : rpc[r] = "idle")

C7_Witness ==
    /\ last.op = "close"
    /\ ~last.wasClosed
    /\ \A r \in Readers : rpc[r] = "woken"

\* C8: a Read that finds fill >= low-water or the buffer closed does not park; if
\* it is not at end-of-stream it returns exactly the min(len(buf), fill) oldest
\* bytes and removes exactly those.
C8_ReadCopiesMin ==
    [][ /\ \A r \in Readers :
             (rpc[r] # "wait" /\ rpc'[r] = "wait") => (Len(buf) < lowWaterMark /\ ~closed)
        /\ (Returns("read") /\ last'.err = "nil")
              => /\ last'.n = Min(last'.arg, Len(buf))
                 /\ Len(last'.bytes) = last'.n
                 /\ last'.bytes = SubSeq(buf, 1, last'.n)
                 /\ buf' = SubSeq(buf, last'.n + 1, Len(buf))
      ]_vars

C8_Witness ==
    /\ last.op = "read"
    /\ last.err = "nil"
    /\ ~last.wasClosed
    /\ last.arg > last.fill
    /\ last.n = last.fill

\* C9 (as claimed): the playback pull never waits on the buffer.  The oto player
\* of OpusV2AudioPlayer and OpusV3AudioPlayer pulls through audioBuffer.Read.
C9_PullNeverWaits == \A r \in Readers : rpc[r] # "wait"

----------------------------------------------------------------------------
(* Properties of the inbound decode loops *)

\* C10: a decode failure sends the loop back to its head (it does not return), and
\* between iterations every frame that decoded has been handed on: to
\* audioBuffer.Write, which returned nil, or into decodedSamplesQueue.
C10_PerItemResilience ==
    [][ /\ nbad' > nbad => (dpc' = "top" /\ dexit' = "none")
        /\ dpc' \in {"top", "read", "done"} => ndeliv' = nframes' - nbad'
      ]_vars

C10_Witness ==
    /\ nbad > 0
    /\ ndeliv >= 2
    /\ dpc = "top"
    /\ pkt.id = nframes

\* C11 (as claimed): once WriteWebRTCTrack of a player that feeds an audioBuffer
\* has returned (ReadRTP error, or ap.closed seen), that audioBuffer is closed, so
\* that a consumer parked in Read is released and gets EOF after the drain.
C11_ExitClosesBuffer == (UsesBuffer(player) /\ dpc = "done") => closed

----------------------------------------------------------------------------
(* Properties of the session negotiator *)

\* Connect or Disconnect returns in this step
ReturnsFrom(op) == ret'.k # ret.k /\ ret'.op = op

\* C12 (as claimed): when Connect returns nil the session is Connected: it holds a
\* data channel that is open and usable, and the SendText that main issues right
\* after Connect returned succeeds.
C12_ConnectedOnSuccess ==
    [][ /\ (ReturnsFrom("Connect") /\ ret'.err = "nil")
            => (dataChannel' # Nil /\ Usable(dataChannel)')
        /\ sendText' # "ErrClosedPipe"
      ]_vars

\* the steps of the offer/answer exchange
SignalingStepSet == {SignalingSteps[i] : i \in 1 .. Len(SignalingSteps)}

\* C13: when a step of the offer/answer exchange fails, Connect returns that error
\* with the connect lock released, the peer connection this attempt built has been
\* closed (once) and the session holds none; so whenever a later attempt starts it
\* finds no peer connection, and the one it creates is new and not closed.
C13_SignalingFailureReleases ==
    [][ /\ (ReturnsFrom("Connect") /\ ret'.err \in SignalingStepSet)
            => /\ ret'.made # Nil
               /\ peerConnections'[ret'.made] = 1
               /\ peerConnection' = Nil
               /\ connectMutex' = "free"
        /\ (ret.op = "Connect" /\ ret.err \in SignalingStepSet /\ connectMutex = "free")
            => peerConnection = Nil
        /\ \A c \in Callers : (lpc'[c] # lpc[c] /\ lpc'[c] # Nil)
            => /\ lpc'[c] \notin DOMAIN peerConnections
               /\ peerConnections'[lpc'[c]] = 0
      ]_vars

\* a Connect that failed in sendOffer, and the next call, a Connect, succeeded on a
\* second peer connection
C13_Witness ==
    /\ ret.op = "Connect"
    /\ ret.err = "nil"
    /\ ret.prev = <<"Connect", "sendOffer">>
    /\ peerConnections = <<1, 0>>
    /\ peerConnection = 2
    /\ ret.made = 2

\* C14 (as claimed): whichever step fails, when Connect returns an error the peer
\* connection created during that attempt has been closed and the session
\* references no peer connection.
C14_EveryFailureTearsDown ==
    [][ (ReturnsFrom("Connect") /\ ret'.err # "nil")
            => /\ peerConnection' = Nil
               /\ ret'.made # Nil => peerConnections'[ret'.made] > 0
      ]_vars

\* C15 (as claimed): a Connect attempt goes on without a token exchange exactly
\* when it holds a credential the API still accepts; a failed exchange leaves no
\* credential cached, and Disconnect keeps the credential.
C15_SkipsExactlyWhenValid ==
    [][ /\ \A c \in Callers : (cpc[c] = "token" /\ cpc'[c] # "token")
            => ((cpc'[c] = "NewPeerConnection" /\ ephemeralToken' = ephemeralToken)
                    <=> (ephemeralToken # "" /\ tokenValid))
        /\ (ReturnsFrom("Connect") /\ ret'.err = "createEphemeralToken")
            => ephemeralToken' = ""
        /\ ReturnsFrom("Disconnect") => ephemeralToken' = ephemeralToken
      ]_vars

\* C16: a Disconnect leaves the session with neither data channel nor peer
\* connection; Close is called on exactly the held ones, once each, and no object
\* is ever closed twice; a Disconnect that finds nothing held changes nothing.
C16_DisconnectReleasesOnce ==
    [][ ReturnsFrom("Disconnect")
            => /\ dataChannel' = Nil
               /\ peerConnection' = Nil
               /\ \A d \in DOMAIN dataChannels :
                     dataChannels'[d].closes =
                         (IF d = dataChannel THEN 1 ELSE dataChannels[d].closes)
               /\ \A p \in DOMAIN peerConnections :
                     peerConnections'[p] =
                         (IF p = peerConnection THEN 1 ELSE peerConnections[p])
               /\ (dataChannel = Nil /\ peerConnection = Nil)
                     => UNCHANGED <<dataChannels, peerConnections, ephemeralToken,
                                    tokenValid, lpc, nconn, sendText>>
      ]_vars

\* a Connect succeeded, then Disconnect was called twice
C16_Witness ==
    /\ ret.op = "Disconnect"
    /\ ret.prev = <<"Disconnect", "nil">>
    /\ Len(dataChannels) = 1
    /\ dataChannels[1].closes = 1
    /\ peerConnections = <<1>>
    /\ dataChannel = Nil
    /\ peerConnection = Nil

\* C17: at most one caller is inside Connect or Disconnect (between its Lock and
\* its Unlock), that caller holds the connect mutex, and a step that writes
\* ephemeralToken, peerConnection or dataChannel is taken by the holder.
C17_OneAttemptAtATime ==
    [][ /\ Cardinality({c \in Callers : cpc'[c] # "idle"}) <= 1
        /\ \A c \in Callers : cpc'[c] # "idle" => connectMutex' = c
        /\ <<ephemeralToken, peerConnection, dataChannel>>'
               # <<ephemeralToken, peerConnection, dataChannel>>
            => (connectMutex \in Callers /\ cpc[connectMutex] # "idle"
                  /\ cpc'[connectMutex] # cpc[connectMutex])
      ]_vars

\* caller a is inside the signaling exchange while b, which has completed a call,
\* is outside
C17_Witness ==
    /\ cpc["a"] = "sendOffer"
    /\ connectMutex = "a"
    /\ cpc["b"] = "idle"
    /\ ret.who = "b"
    /\ peerConnection # Nil

----------------------------------------------------------------------------
(* Properties of the outbound capture/encode loop *)

\* C18: an input overflow and an encode failure send the loop back to its head (it
\* does not return); the cycle in which either happens hands no frame to
\* micTrack.WriteSample, so at the head of the loop the frames handed over are
\* exactly the captures that neither overflowed nor failed to encode.
C18_TransientErrorsContinue ==
    [][ /\ (nover' > nover \/ nencErr' > nencErr)
            => (capPc' = "capture" /\ capExit' = "none" /\ nhand' = nhand)
        /\ capPc' = "capture" => nhand' = ncap' - nover' - nencErr'
      ]_vars

\* both kinds of fault have happened, frames were sent before and after, and the
\* loop is at its head again
C18_Witness ==
    /\ nover > 0
    /\ nencErr > 0
    /\ nsent >= 2
    /\ capPc = "capture"
    /\ capExit = "none"

\* C19: a WriteSample that fails makes the loop return, and once it has returned
\* for that reason it captures, encodes and sends nothing more.
C19_TransmissionFailureTerminates ==
    [][ /\ (nhand' > nhand /\ nsent' = nsent)
            => (capPc' = "done" /\ capExit' = "writeErr")
        /\ capExit = "writeErr" => (capPc = "done" /\ capVars' = capVars)
      ]_vars

\* the loop has returned on a failed WriteSample after sending frames
C19_Witness ==
    /\ capExit = "writeErr"
    /\ capPc = "done"
    /\ nsent > 0
    /\ nhand = nsent + 1

----------------------------------------------------------------------------
(* Cancellation of the decode loops *)

\* C20 (as claimed): once the player's Close has set ap.closed, the running
\* WriteWebRTCTrack loop eventually returns, whether or not the network delivers
\* another packet or an error.
C20_CancelEventuallyExits == apClosed ~> (dpc = "done")

----------------------------------------------------------------------------
(* Properties of the inbound direction as a whole *)

\* the ids of the frames in q increase from head to tail
Ascending(q) == \A i \in 1 .. (Len(q) - 1) : q[i].id < q[i + 1].id

\* C21: playback gets the decoded frames in the order their packets were read.
\* Through audioBuffer: the decode loop appends each frame's PCM behind everything
\* buffered, and a Read returns the oldest bytes and removes them.  Through
\* decodedSamplesQueue: the loop appends the frame just read, whose number is
\* above every queued one, and the callback plays the head of the queue.
C21_ArrivalOrder ==
    [][ /\ IsRun(buf' \o wdata')
        /\ \A i \in 1 .. Len(buf') : buf'[i] <= written'
        /\ (Returns("write") /\ last'.err = "nil" /\ last'.n > 0)
            => /\ last'.bytes = Run(written' - last'.n + 1, last'.n)
               /\ KeepsSuffix(buf, buf', last'.bytes)
        /\ Returns("read") => buf = last'.bytes \o buf'
        /\ Ascending(queue')
        /\ Len(queue') > Len(queue)
            => /\ queue' = Append(queue, pkt)
               /\ pkt.id = nframes
               /\ \A i \in 1 .. Len(queue) : queue[i].id < pkt.id
        /\ Len(queue') < Len(queue)
            => (cbOut'.id = Head(queue).id /\ queue' = Tail(queue))
      ]_vars

\* the player has pulled PCM of a later frame after the loop delivered two frames
C21_Witness ==
    /\ player = "v2"
    /\ ndeliv >= 2
    /\ last.op = "read"
    /\ last.n > 0
    /\ last.bytes[1] > 1
    /\ buf # <<>>

----------------------------------------------------------------------------
(* Properties of the two directions together *)

\* C22 (as claimed): when the decode loop or the capture loop has returned, the
\* session is still up: main has not returned and the peer connections are open,
\* so the other direction's loop can keep running.
C22_DirectionsIndependent ==
    (dpc = "done" \/ capPc = "done") => (mainPc = "wait" /\ pcOpen)

\* C26: a ReadRTP error makes the decode loop return, and a loop that has returned
\* for that reason reads, decodes and writes nothing more (no packet is counted, no
\* byte enters the audioBuffer, no frame enters the queue); what was buffered stays
\* available to the playback pull, which goes on running.
C26_ReadErrorTerminates ==
    [][ /\ (dexit' = "readErr" /\ dexit # "readErr")
            => (dpc = "read" /\ dpc' = "done")
        /\ dexit = "readErr"
            => /\ dpc = "done"
               /\ UNCHANGED <<dpc, dexit, pkt, nframes, nbad, ndeliv, written, dropped,
                              wpc, apMutex, mainVars>>
               /\ Len(queue') <= Len(queue)
               /\ Len(buf') <= Len(buf)
      ]_vars

\* the loop returned on a read error after delivering frames, and the playback
\* pull has since read buffered PCM
C26_Witness ==
    /\ dexit = "readErr"
    /\ dpc = "done"
    /\ ndeliv >= 2
    /\ last.op = "read"
    /\ last.n > 0
    /\ last.after = Len(buf)
    /\ written > Len(buf) + dropped + last.n

----------------------------------------------------------------------------
(* Properties of the sample conversions *)

\* C23 (as claimed): every conversion saturates: a sample above 1.0 gives the
\* greatest value of the target type, a sample below -1.0 the least, and the
\* result for exactly 1.0 or -1.0 has the sign of the sample.
C23_Saturates ==
    convPc = "done"
        => /\ AboveOne(sample) => fixed = TargetMax(conv)
           /\ BelowMinusOne(sample) => fixed = TargetMin(conv)
           /\ Normal(sample) \in {One, MinusOne} => Sgn(fixed) = Sgn(sample.m)

----------------------------------------------------------------------------
(* Properties of the remote-track callback *)

\* C24 (as claimed): at any time at most one WriteWebRTCTrack loop runs on the
\* player, whatever remote tracks arrive and however Connect and Disconnect follow
\* one another.
C24_SingleProducer == Cardinality({i \in DOMAIN loops : loops[i].running}) <= 1

\* C25 (as claimed): a packet that decodes to zero samples changes neither the
\* audioBuffer nor decodedSamplesQueue: the loop goes on to the next packet and
\* playback gets what it would have got without that packet.
C25_ZeroSamplesNoOp ==
    [][ (dpc = "decoded" /\ pkt.len = 0 /\ dpc' # dpc)
            => (dpc' = "top" /\ queue' = queue /\ buf' = buf)
      ]_vars


----------------------------------------------------------------------------
(* Properties of the diagnostics *)

\* C27: the counters are rolling.  At any time every logStats call so far is in
\* exactly one place: either in a report already printed or in the counters of
\* the running interval (so packets, bytes and samples reported plus those held
\* equal those logged), a report resets the three counters together, and each
\* report moves the interval start forward by at least one interval.
C27_RollingCounters ==
    /\ reported.packetsReceived + diag.packetsReceived = total.packetsReceived
    /\ reported.bytesReceived + diag.bytesReceived = total.bytesReceived
    /\ reported.sampleCount + diag.sampleCount = total.sampleCount
    /\ diag.packetsReceived = 0 => (diag.bytesReceived = 0 /\ diag.sampleCount = 0)
    /\ diag.lastPrintTime <= clock
    /\ diag.lastPrintTime >= nreports * TicksPerSecond

C27_Witness ==
    /\ nreports >= 2
    /\ reported.bytesReceived > 0
    /\ reported.sampleCount > 0
    /\ diag.packetsReceived > 0
    /\ diag.bytesReceived > 0


----------------------------------------------------------------------------
(* Properties of the session's handles *)

\* C28 (as claimed): whenever no Connect or Disconnect is in progress, a session
\* that holds a data channel also holds a peer connection, and the channel was
\* created on that peer connection.
C28_HandlesConsistent ==
    (connectMutex = "free" /\ dataChannel # Nil)
        => (peerConnection # Nil /\ dataChannels[dataChannel].pc = peerConnection)

\* C29 (as claimed): whenever no Connect or Disconnect is in progress, every peer
\* connection ever created is the one the session references or has been closed,
\* every data channel ever created is the one the session references or has been
\* closed (by its own Close or with its peer connection), and at most one peer
\* connection is unclosed.
C29_NoLeakedSession ==
    connectMutex = "free" =>
        /\ \A p \in DOMAIN peerConnections : p = peerConnection \/ peerConnections[p] > 0
        /\ \A d \in DOMAIN dataChannels :
               \/ d = dataChannel
               \/ dataChannels[d].closes > 0
               \/ peerConnections[dataChannels[d].pc] > 0
        /\ Cardinality({p \in DOMAIN peerConnections : peerConnections[p] = 0}) <= 1

\* C30 (as claimed): a Connect that succeeds had its data channel on the peer
\* connection before the offer was generated; so when its last step begins, the
\* offer/answer exchange being over, a data channel already exists on the
\* session's peer connection.
C30_ChannelBeforeOffer ==
    [][ \A c \in Callers :
            (cpc[c] = "CreateDataChannel" /\ cpc'[c] = "idle" /\ ret'.err = "nil")
                => \E d \in DOMAIN dataChannels : dataChannels[d].pc = peerConnection
      ]_vars


----------------------------------------------------------------------------
(* More properties of audioBuffer *)

\* the last call was a Write that returned nil for data no longer than the
\* high-water mark that did not fit under it
DiscardingWrite ==
    /\ last.op = "write"
    /\ last.err = "nil"
    /\ last.arg <= highWaterMark
    /\ last.fill + last.arg > highWaterMark

\* the bytes the last Write discarded
Discarded == last.fill + last.arg - last.after

\* data of length arg fits under the high-water mark once k rounds of the
\* discard loop have run on a buffer of fill bytes
FitsAfter(k, fill, arg) == fill - Min(k * arg, fill) + arg <= highWaterMark

\* C33 (as claimed): a discarding Write discards exactly the excess, so that the
\* fill is the high-water mark when it returns.
C33_DiscardsExactly == DiscardingWrite => last.after = highWaterMark

\* C33 (amended): a discarding Write discards len(data) bytes at a time (the
\* whole buffer if it holds less), as few times as makes the data fit; so the
\* fill it leaves is at most the high-water mark and can be below it.
C33_DiscardsInChunks ==
    DiscardingWrite =>
        /\ last.after <= highWaterMark
        /\ \E k \in 1 .. last.fill :
               /\ Discarded = Min(k * last.arg, last.fill)
               /\ FitsAfter(k, last.fill, last.arg)
               /\ ~FitsAfter(k - 1, last.fill, last.arg)

C33_Witness == DiscardingWrite /\ last.after < highWaterMark /\ Discarded < last.fill


\* stream position i is in the buffer
InBuf(i) == \E j \in DOMAIN buf : buf[j] = i

\* C34 (as claimed): with a consumer that keeps calling Read, every byte in the
\* buffer eventually leaves it (returned by a Read, unless a later Write
\* discards it), whatever the producer does: no byte is in the buffer for ever.
C34_NoStrandedAudio == \A i \in 1 .. MaxStream : []<>(~InBuf(i))


\* the buffer is open and holds less than the low-water mark
BelowLowWater == Len(buf) < lowWaterMark /\ ~closed

\* C34 (amended): with a consumer that keeps calling Read, a byte stays in the
\* buffer only while the buffer is open with less than the low-water mark in
\* it: no byte is for ever in a buffer that is closed or at the mark or above.
C34_DrainsDownToLowWater ==
    \A i \in 1 .. MaxStream : []<>(~InBuf(i) \/ BelowLowWater)

\* the producer has written its last byte, the buffer is open, the consumer is
\* parked in Read and a byte is in the buffer
C34_Witness ==
    /\ written = MaxStream
    /\ rpc[Consumer] = "wait"
    /\ buf # <<>>
    /\ dropped > 0


----------------------------------------------------------------------------
(* Properties of OpusV3AudioPlayer.Close against the running loop *)

\* C32 (as claimed): the WriteWebRTCTrack loop of OpusV3AudioPlayer never uses
\* the player handle once Close has set it to nil, and Close never writes
\* ap.closed while the loop, holding no lock, is at the test that reads it.
C32_CloseIsSafeForLoop ==
    [][ player = "v3" =>
            /\ dexit' # "nilPlayer"
            /\ (apClosed' # apClosed) => dpc # "top"
      ]_vars


----------------------------------------------------------------------------
(* Properties of the PortaudioPlayer *)

\* C35 (as claimed): what processAudio emits, the zeros of the empty buffer left
\* aside, is decoded samples in decode order, each at most once.
C35_RingInOrder ==
    /\ \A i, j \in DOMAIN emitted :
           (i < j /\ emitted[i] # 0 /\ emitted[j] # 0) => emitted[i] < emitted[j]
    /\ \A i \in DOMAIN emitted : emitted[i] # 0 => emitted[i] > highest

\* C38 (as claimed): Close returns nil only with the stream stopped and closed
\* and PortAudio terminated; after a Close that failed, the release is still to
\* be attempted, so the player is not yet marked closed.
C38_CloseReleasesOrRetries ==
    player = "pa" =>
        /\ closeRet = "nil" => (stream = "closed" /\ terminated)
        /\ (closeRet \notin {"none", "nil"}) => ~apClosed


----------------------------------------------------------------------------
(* The player mutex in the decode loops *)

\* the loop is between ap.mutex.Lock() and the end of the iteration
InIteration == dpc \in {"decoded", "writing"}

\* C37: in the loops of OpusV2AudioPlayer and PortaudioPlayer ap.mutex is held
\* only inside an iteration, after ReadRTP has returned a packet: it is free
\* while the loop is at its head, blocked in ReadRTP or has returned, and every
\* way out of an iteration (decode error, write error, success) leaves it free.
C37_MutexReleased ==
    /\ [](player \in LockingPlayers => (~InIteration => apMutex = "free"))
    /\ [][ (player \in LockingPlayers /\ dpc = "read" /\ dpc' # "read")
               => (apMutex' = "free" <=> ~InIteration')
         ]_vars
    /\ [][ (player \in LockingPlayers /\ InIteration /\ ~InIteration')
               => apMutex' = "free"
         ]_vars

\* both outcomes of an iteration have happened and the loop is blocked in ReadRTP
C37_Witness ==
    /\ player \in LockingPlayers
    /\ nbad > 0
    /\ ndeliv > 0
    /\ dpc = "read"
    /\ apMutex = "free"


----------------------------------------------------------------------------
(* Properties of receiveRemoteAudio *)

\* C31 (as claimed): goroutine 1 never sends on speakerBuffers once it has been
\* closed, wherever cancellation finds it (so it never panics on the send).
C31_NoSendAfterClose ==
    [][ (readerPc = "send" /\ readerPc' # "send") => ~sbClosed ]_vars


----------------------------------------------------------------------------
(* Properties of the echo programs *)

\* C36 (as claimed): the output callback gets the frames from echoChan in the
\* order in which they were captured, however the delay goroutines are scheduled.
C36_EchoInOrder ==
    \A i, j \in DOMAIN echoOut : i < j => echoOut[i] < echoOut[j]


----------------------------------------------------------------------------
(* Properties of recordAudioToWav *)

\* C39 (as claimed): every encoded buffer read by recordAudioToWav has been
\* released exactly once when the next Read is made or the function returns,
\* whichever path the loop body took.
C39_ReleasedOnce ==
    \A n \in DOMAIN releases :
        (n < Len(releases) \/ recPc # "frame") => releases[n] = 1

=============================================================================
